---- MODULE Spec2Model ----
(***************************************************************************)
(* A model of MattPkg's DriverXmlLib: the chunk extractor                  *)
(* (DriverXmlStringHandlers), the tree builder and node store              *)
(* (DriverXmlParser.c, DriverXmlApi.c) and the serializer                  *)
(* (DriverWriteXml.c).                                                     *)
(*                                                                         *)
(* Bytes are ASCII codes.  An input buffer is a sequence of bytes; offsets *)
(* are 0-based as in the C code, so offset i is element i+1.  The byte at  *)
(* offset DocumentSize lies outside the buffer: the code reads it in some  *)
(* paths, and what it holds is whatever follows the buffer in memory.      *)
(*                                                                         *)
(* Undefined behaviour is a choice of the environment.  A step that        *)
(* dereferences an uninitialised or dangling pointer either faults (the    *)
(* machine stops: pc = "fault") or runs "quiet": an uninitialised pointer  *)
(* holds zero and memory at address zero reads as zero bytes, and freed    *)
(* memory still holds what it held when it was freed.                      *)
(***************************************************************************)
EXTENDS Integers, Sequences, FiniteSets, TLC

\* ------------------------------------------------------------------ bounds

\* The largest number of tokens an input document is built from.
MaxChunks == 3

\* The deepest nesting of ParseBranch frames the stack holds; a deeper
\* recursion exhausts it.
MaxDepth == 5

\* The largest number of nodes the node store holds, Root included.
MaxNodes == 4

\* The largest number of calls that write to an output document.
MaxWrites == 3

\* ------------------------------------------------------------------- bytes

Ascii ==
  (" " :> 32) @@ ("!" :> 33) @@ ("\"" :> 34) @@ ("'" :> 39) @@ ("-" :> 45) @@
  ("/" :> 47) @@ ("1" :> 49) @@ ("<" :> 60) @@ ("=" :> 61) @@ (">" :> 62) @@
  ("?" :> 63) @@ ("A" :> 65) @@ ("D" :> 68) @@ ("R" :> 82) @@ ("[" :> 91) @@
  ("]" :> 93) @@ ("a" :> 97) @@ ("b" :> 98) @@ ("c" :> 99) @@ ("d" :> 100) @@
  ("e" :> 101) @@ ("g" :> 103) @@ ("h" :> 104) @@ ("i" :> 105) @@
  ("l" :> 108) @@ ("n" :> 110) @@ ("o" :> 111) @@ ("p" :> 112) @@
  ("r" :> 114) @@ ("s" :> 115) @@ ("t" :> 116) @@ ("u" :> 117) @@
  ("x" :> 120) @@ ("y" :> 121)

\* The bytes of a text given as a tuple of one-character strings.
Str(s) == [i \in 1..Len(s) |-> Ascii[s[i]]]

\* A NULL (or, run quiet, an uninitialised) CHAR8 pointer.
NULL == <<-1>>

\* The C string a pointer designates: a sequence of non-zero bytes followed by
\* an implicit terminating zero; address zero reads as the empty string.
CStr(p) == IF p = NULL THEN <<>> ELSE p

\* p[i] for a C string (0-based); the terminator and the zeroed byte after it
\* (AllocateZeroPool) read as 0.
CAt(p, i) == IF i >= 0 /\ i < Len(CStr(p)) THEN CStr(p)[i + 1] ELSE 0

\* &p[i] for a C string: the string that starts at offset i.
CFrom(p, i) == SubSeq(CStr(p), i + 1, Len(CStr(p)))

AsciiStrLen(p) == Len(CStr(p))

\* A comparison that takes an upper-case letter for its lower-case one.
ToLower(c) == IF c >= 65 /\ c <= 90 THEN c + 32 ELSE c

AsciiStriCmp(a, b) ==
  IF [i \in 1..Len(CStr(a)) |-> ToLower(CStr(a)[i])]
       = [i \in 1..Len(CStr(b)) |-> ToLower(CStr(b)[i])]
  THEN 0 ELSE 1

AsciiStrCmp(a, b) == IF CStr(a) = CStr(b) THEN 0 ELSE 1

SetMin(S) == CHOOSE x \in S : \A y \in S : x <= y

Max2(a, b) == IF a >= b THEN a ELSE b

EFI_ERROR(Status) == Status # "EFI_SUCCESS"

\* ------------------------------------------------- character classification

IsStrLenAtLeast(s, MinLen) == \A i \in 0..MinLen : CAt(s, i) # 0

IsAsciiWhitespace(Character) == Character \in {32, 9, 13, 10}

IsAsciiNameStartChar(AsciiChar) ==
  \/ AsciiChar >= 65 /\ AsciiChar <= 90
  \/ AsciiChar >= 97 /\ AsciiChar <= 122
  \/ AsciiChar = 95
  \/ AsciiChar = 58

IsAsciiNameChar(Character) ==
  \/ IsAsciiNameStartChar(Character)
  \/ Character >= 48 /\ Character <= 57
  \/ Character = 45
  \/ Character = 46

IsAsciiXmlChar(Character) ==
  \/ Character \in {9, 10, 13}
  \/ Character >= 32 /\ Character <= 126

IsAsciiXmlTag(XmlString) ==
  IF ~IsStrLenAtLeast(XmlString, 3) THEN FALSE
  ELSE IF CAt(XmlString, 0) # 60 THEN FALSE
  ELSE IF CAt(XmlString, 1) = 47 THEN IsAsciiNameStartChar(CAt(XmlString, 2))
  ELSE IsAsciiNameStartChar(CAt(XmlString, 1))

IsAsciiEmptyElementXmlTag(XmlString) ==
  LET XmlStrLen == AsciiStrLen(XmlString)
  IN  IF XmlStrLen < 4 THEN FALSE
      ELSE IF CAt(XmlString, XmlStrLen - 1) # 62 THEN FALSE
      ELSE CAt(XmlString, XmlStrLen - 2) = 47

IsAsciiXmlCloseTag(XmlString) ==
  IF ~IsStrLenAtLeast(XmlString, 3) THEN FALSE
  ELSE IF CAt(XmlString, 0) # 60 THEN FALSE
  ELSE IF CAt(XmlString, 1) = 47 THEN IsAsciiNameStartChar(CAt(XmlString, 2))
  ELSE FALSE

IsAsciiXmlTagEndStr(XmlString) ==
  \/ CAt(XmlString, 0) = 62
  \/ CAt(XmlString, 0) = 47 /\ CAt(XmlString, 1) = 62

IsAsciiPI(XmlString) ==
  IF ~IsStrLenAtLeast(XmlString, 2) THEN FALSE
  ELSE CAt(XmlString, 0) = 60 /\ CAt(XmlString, 1) = 63

IsAsciiDeclaration(XmlString) ==
  IF ~IsStrLenAtLeast(XmlString, 2) THEN FALSE
  ELSE IF CAt(XmlString, 0) # 60 THEN FALSE
  ELSE IF CAt(XmlString, 1) # 33 THEN FALSE
  ELSE CAt(XmlString, 2) # 45

IsAsciiComment(XmlString) ==
  IF ~IsStrLenAtLeast(XmlString, 4) THEN FALSE
  ELSE /\ CAt(XmlString, 0) = 60
       /\ CAt(XmlString, 1) = 33
       /\ CAt(XmlString, 2) = 45
       /\ CAt(XmlString, 3) = 45

\* -------------------------------------------------------- chunk extraction

\* The byte at offset i of the buffer; offset Len(buf) is the byte that follows
\* the buffer in memory, oob.
ByteAt(buf, oob, i) == IF i < Len(buf) THEN buf[i + 1] ELSE oob

\* The string a CHAR8* into the buffer designates: the bytes from offset p on,
\* the byte after the buffer included.
BufStr(buf, oob, p) == [i \in 1..(Len(buf) - p + 1) |-> ByteAt(buf, oob, p + i - 1)]

\* The Length bytes CopyMem takes from the buffer at offset op.
CopyMem(buf, op, Length) == SubSeq(buf, op + 1, op + Length)

\* The extractors return the status, the new OperationPtr, the chunk handed
\* back (NULL when *XmlString is not assigned) and hi, the highest buffer
\* offset read (-1 when none is read).

AsciiExtractPI(buf, oob, op) ==
  LET End  == Len(buf)
      cand == (op + 1)..(End - 3)
      hits == {p \in cand : ByteAt(buf, oob, p) = 63 /\ ByteAt(buf, oob, p + 1) = 62}
      stop == IF hits # {} THEN SetMin(hits) ELSE IF cand # {} THEN End - 3 ELSE op
      LocalPtr == IF hits # {} THEN stop + 2 ELSE stop
      Length == LocalPtr - op
      hi == IF cand = {} THEN -1
            ELSE IF ByteAt(buf, oob, stop) = 63 THEN stop + 1 ELSE stop
  IN  IF LocalPtr > End
      THEN [Status |-> "EFI_END_OF_FILE", OperationPtr |-> op, XmlString |-> NULL, hi |-> hi]
      ELSE [Status |-> "EFI_SUCCESS", OperationPtr |-> LocalPtr,
            XmlString |-> CopyMem(buf, op, Length), hi |-> hi]

\* The scan shared by AsciiExtractComment ('-' '-' '>') and
\* AsciiExtractBoxedData (']' ']' '>'): c is the byte the terminator repeats.
ExtractTo3(buf, oob, op, c) ==
  LET End  == Len(buf)
      cand == (op + 1)..(End - 3)
      hits == {p \in cand : /\ ByteAt(buf, oob, p) = c
                            /\ ByteAt(buf, oob, p + 1) = c
                            /\ ByteAt(buf, oob, p + 2) = 62}
      stop == IF hits # {} THEN SetMin(hits) ELSE IF cand # {} THEN End - 3 ELSE op
      LocalPtr == IF hits # {} THEN stop + 3 ELSE stop
      Length == LocalPtr - op
      hi == IF cand = {} THEN -1
            ELSE IF ByteAt(buf, oob, stop) # c THEN stop
            ELSE IF ByteAt(buf, oob, stop + 1) # c THEN stop + 1 ELSE stop + 2
  IN  IF LocalPtr > End
      THEN [Status |-> "EFI_END_OF_FILE", OperationPtr |-> op, XmlString |-> NULL, hi |-> hi]
      ELSE [Status |-> "EFI_SUCCESS", OperationPtr |-> LocalPtr,
            XmlString |-> CopyMem(buf, op, Length), hi |-> hi]

AsciiExtractComment(buf, oob, op) == ExtractTo3(buf, oob, op, 45)

AsciiExtractBoxedData(buf, oob, op) == ExtractTo3(buf, oob, op, 93)

AsciiExtractDeclaration(buf, oob, op) ==
  LET End  == Len(buf)
      cand == (op + 1)..(End - 3)
      hits == {p \in cand : ByteAt(buf, oob, p) = 62}
      LocalPtr == IF hits # {} THEN SetMin(hits) ELSE IF cand # {} THEN End - 3 ELSE op
      Length == LocalPtr - op
      hi == Max2(op + 2, IF cand = {} THEN -1 ELSE LocalPtr)
  IN  IF ByteAt(buf, oob, op + 2) = 91
      THEN [AsciiExtractBoxedData(buf, oob, op) EXCEPT !.hi = Max2(@, op + 2)]
      ELSE IF ByteAt(buf, oob, op + 2) = 45
      THEN [AsciiExtractComment(buf, oob, op) EXCEPT !.hi = Max2(@, op + 2)]
      ELSE IF LocalPtr > End
      THEN [Status |-> "EFI_END_OF_FILE", OperationPtr |-> op, XmlString |-> NULL, hi |-> hi]
      ELSE [Status |-> "EFI_SUCCESS", OperationPtr |-> LocalPtr + 1,
            XmlString |-> CopyMem(buf, op, Length), hi |-> hi]

AsciiExtractXmlTag(buf, oob, op) ==
  LET End  == Len(buf)
      cand == (op + 1)..End
      hits == {p \in cand : ByteAt(buf, oob, p) = 62}
      stop == IF hits # {} THEN SetMin(hits) ELSE IF cand # {} THEN End ELSE op
      LocalPtr == IF hits # {} THEN stop + 1 ELSE stop
      Length == LocalPtr - op
      hi == IF cand = {} THEN -1 ELSE stop
  IN  IF LocalPtr > End
      THEN [Status |-> "EFI_END_OF_FILE", OperationPtr |-> op, XmlString |-> NULL, hi |-> hi]
      ELSE [Status |-> "EFI_SUCCESS", OperationPtr |-> LocalPtr,
            XmlString |-> CopyMem(buf, op, Length), hi |-> hi]

AsciiExtractCharData(buf, oob, op) ==
  LET End  == Len(buf)
      cand == (op + 1)..End
      hits == {p \in cand : ByteAt(buf, oob, p) = 60}
      LocalPtr == IF hits # {} THEN SetMin(hits) ELSE IF cand # {} THEN End ELSE op
      Length == LocalPtr - op
      hi == IF cand = {} THEN -1 ELSE LocalPtr
  IN  [Status |-> "EFI_SUCCESS",
       OperationPtr |-> IF LocalPtr > End THEN End ELSE LocalPtr,
       XmlString |-> CopyMem(buf, op, Length), hi |-> hi]

\* XmlTagType as AsciiExtractMarkupOrText sets it for a chunk that starts as a
\* tag.
TagType(XmlString) ==
  IF IsAsciiXmlCloseTag(XmlString) THEN "XmlCloseTag"
  ELSE IF IsAsciiEmptyElementXmlTag(XmlString) THEN "XmlEmptyTag"
  ELSE "XmlTag"

\* The end of AsciiExtractMarkupOrText: x is what the extractor returned (its
\* status is not looked at), lo the highest offset read before the extractor
\* ran.  uninit says that *XmlString was read without having been assigned.
Extracted(End, x, ExtractedType, lo, uninit) ==
  [Status |-> IF x.OperationPtr > End THEN "EFI_END_OF_FILE" ELSE "EFI_SUCCESS",
   OperationPtr |-> IF x.OperationPtr > End THEN End ELSE x.OperationPtr,
   XmlString |-> x.XmlString, ExtractedType |-> ExtractedType,
   hi |-> Max2(lo, x.hi), uninit |-> uninit]

\* The tag case: the chunk AsciiExtractXmlTag handed back is classified even
\* when AsciiExtractXmlTag failed and handed nothing back.
ExtractedTag(End, tag, lo) ==
  Extracted(End, tag, TagType(tag.XmlString), lo, tag.Status # "EFI_SUCCESS")

\* The markup branch of AsciiExtractMarkupOrText: the chunk at StrStart, which
\* holds '<' and has at least 4 bytes of buffer after it; s is the string at
\* StrStart.  IsAsciiComment's IsStrLenAtLeast (StrStart, 4) reads StrStart[4].
ExtractMarkup(buf, oob, StrStart, s) ==
  IF IsAsciiComment(s)
    THEN Extracted(Len(buf), AsciiExtractComment(buf, oob, StrStart), "XmlComment",
                   StrStart + 4, FALSE)
  ELSE IF IsAsciiPI(s)
    THEN Extracted(Len(buf), AsciiExtractPI(buf, oob, StrStart), "XmlPi",
                   StrStart + 4, FALSE)
  ELSE IF IsAsciiDeclaration(s)
    THEN Extracted(Len(buf), AsciiExtractDeclaration(buf, oob, StrStart), "XmlDecl",
                   StrStart + 4, FALSE)
  ELSE IF IsAsciiXmlTag(s)
    THEN ExtractedTag(Len(buf), AsciiExtractXmlTag(buf, oob, StrStart), StrStart + 4)
  ELSE Extracted(Len(buf), AsciiExtractCharData(buf, oob, StrStart), "XmlNothing",
                 StrStart + 4, FALSE)

\* AsciiExtractMarkupOrText once the whitespace is skipped: StrStart is the
\* offset of the first byte that is no whitespace.
ExtractAt(buf, oob, op, StrStart) ==
  IF ByteAt(buf, oob, StrStart) = 60
  THEN IF Len(buf) - StrStart < 4
       THEN [Status |-> "EFI_DEVICE_ERROR", OperationPtr |-> StrStart, XmlString |-> NULL,
             ExtractedType |-> "XmlNothing", hi |-> StrStart, uninit |-> FALSE]
       ELSE ExtractMarkup(buf, oob, StrStart, BufStr(buf, oob, StrStart))
  ELSE [Extracted(Len(buf), AsciiExtractCharData(buf, oob, op), "XmlChar", StrStart, FALSE)
          EXCEPT !.Status = "EFI_SUCCESS"]

AsciiExtractMarkupOrText(buf, oob, op) ==
  LET End   == Len(buf)
      nonws == {p \in op..End : ~IsAsciiWhitespace(ByteAt(buf, oob, p))}
  IN  IF op > End
      THEN [Status |-> "EFI_END_OF_FILE", OperationPtr |-> op, XmlString |-> NULL,
            ExtractedType |-> "XmlNothing", hi |-> -1, uninit |-> FALSE]
      ELSE IF nonws = {}
      THEN [Status |-> "EFI_END_OF_FILE", OperationPtr |-> op, XmlString |-> NULL,
            ExtractedType |-> "XmlNothing", hi |-> End, uninit |-> FALSE]
      ELSE ExtractAt(buf, oob, op, SetMin(nonws))

\* ------------------------------------------------- inside an extracted chunk

\* The least offset i >= from of C string p whose byte is in (want = TRUE) or
\* not in (want = FALSE) the whitespace class, and the length when none is.
ScanWs(p, from, want) ==
  SetMin({i \in from..AsciiStrLen(p) :
            i = AsciiStrLen(p) \/ (IsAsciiWhitespace(CAt(p, i)) = want)})

\* The number of name bytes at offset at of p, the first one counted unseen
\* (ElementLength and PiTargetLength start at 1).
NameLength(p, at) ==
  SetMin({e \in 1..(AsciiStrLen(p) + 1) :
            \/ IsAsciiWhitespace(CAt(p, at + e))
            \/ ~IsAsciiNameChar(CAt(p, at + e))
            \/ at + e >= AsciiStrLen(p)})

\* ElementName is NULL when the function returns without assigning it.
AsciiGetTagNameFromElement(TagData) ==
  LET StrPtr == IF CAt(TagData, 1) = 47 THEN 2 ELSE 1
      ElementLength == NameLength(TagData, StrPtr)
  IN  IF CAt(TagData, 0) # 60
      THEN [Status |-> "EFI_INVALID_PARAMETER", ElementName |-> NULL]
      ELSE IF ~IsAsciiNameStartChar(CAt(TagData, StrPtr))
      THEN [Status |-> "EFI_INVALID_PARAMETER", ElementName |-> NULL]
      ELSE IF /\ ~IsAsciiWhitespace(CAt(TagData, StrPtr + ElementLength))
              /\ ~IsAsciiXmlTagEndStr(CFrom(TagData, StrPtr + ElementLength))
      THEN [Status |-> "EFI_INVALID_PARAMETER", ElementName |-> NULL]
      ELSE [Status |-> "EFI_SUCCESS",
            ElementName |-> SubSeq(CStr(TagData), StrPtr + 1, StrPtr + ElementLength)]

\* FirstAttribute is the offset in XmlString of the first attribute.
IsAsciiXmlTagWithAttributes(XmlString) ==
  LET XmlStrLen == AsciiStrLen(XmlString)
      i == ScanWs(XmlString, 0, TRUE)
      k == ScanWs(XmlString, i, FALSE)
  IN  IF ~IsAsciiXmlTag(XmlString) THEN [Result |-> FALSE, FirstAttribute |-> 0]
      ELSE IF i >= XmlStrLen THEN [Result |-> FALSE, FirstAttribute |-> 0]
      ELSE IF IsAsciiXmlTagEndStr(CFrom(XmlString, k))
      THEN [Result |-> FALSE, FirstAttribute |-> 0]
      ELSE [Result |-> TRUE, FirstAttribute |-> k]

\* AsciiExtractAttribute (InOutStr) gives the status, the new value of
\* *InOutStr, the attribute name and the attribute data (NULL when not
\* assigned).  It is written as the stages the code goes through.

\* An AttributeFail that leaves *InOutStr one byte further on.
AttributeFailMoved(InOutStr) ==
  [Status |-> "EFI_INVALID_PARAMETER", InOutStr |-> CFrom(InOutStr, 1),
   Attribute |-> NULL, AttribData |-> NULL]

AttributeFail(InOutStr) ==
  [Status |-> "EFI_INVALID_PARAMETER", InOutStr |-> InOutStr,
   Attribute |-> NULL, AttribData |-> NULL]

\* An AttributeValue that ends the value at either quote character.
AttributeValueEitherQuote(InOutStr, LocalAttrib, QuoteTypeChar, val) ==
  LET close == SetMin({n \in 0..AsciiStrLen(val) :
                         n = AsciiStrLen(val) \/ CAt(val, n) \in {34, 39}})
  IN  IF CAt(val, close) \notin {34, 39} THEN AttributeFail(InOutStr)
      ELSE [Status |-> "EFI_SUCCESS", InOutStr |-> CFrom(val, close + 1),
            Attribute |-> LocalAttrib,
            AttribData |-> IF close > 0 THEN SubSeq(val, 1, close) ELSE NULL]

\* val is the text after the opening quote.
AttributeValue(InOutStr, LocalAttrib, QuoteTypeChar, val) ==
  LET close == SetMin({n \in 0..AsciiStrLen(val) :
                         n = AsciiStrLen(val) \/ CAt(val, n) = QuoteTypeChar})
  IN  IF CAt(val, close) # QuoteTypeChar THEN AttributeFail(InOutStr)
      ELSE [Status |-> "EFI_SUCCESS", InOutStr |-> CFrom(val, close + 1),
            Attribute |-> LocalAttrib,
            AttribData |-> IF close > 0 THEN SubSeq(val, 1, close) ELSE NULL]

\* open is the text after '=' and the whitespace that follows it.
AttributeQuote(InOutStr, LocalAttrib, open) ==
  IF CAt(open, 0) # 34 /\ CAt(open, 0) # 39 THEN AttributeFail(InOutStr)
  ELSE AttributeValue(InOutStr, LocalAttrib, CAt(open, 0), CFrom(open, 1))

\* eq is the text after the name and the one whitespace byte consumed with it.
AttributeEquals(InOutStr, LocalAttrib, eq) ==
  IF CAt(eq, 0) # 61 THEN AttributeFail(InOutStr)
  ELSE AttributeQuote(InOutStr, LocalAttrib, CFrom(eq, ScanWs(eq, 1, FALSE)))

\* The name is the first i bytes of StrPtr.
AttributeNamed(InOutStr, StrPtr, i) ==
  AttributeEquals(InOutStr, SubSeq(StrPtr, 1, i),
                  IF IsAsciiWhitespace(CAt(StrPtr, i)) THEN CFrom(StrPtr, i + 1)
                  ELSE CFrom(StrPtr, i))

\* StrPtr is InOutStr without its leading whitespace.  The name ends at '=',
\* at whitespace or at the end of the string.
AttributeStart(InOutStr, StrPtr) ==
  IF IsAsciiXmlTagEndStr(StrPtr)
  THEN [Status |-> "EFI_NOT_FOUND", InOutStr |-> StrPtr,
        Attribute |-> NULL, AttribData |-> NULL]
  ELSE AttributeNamed(InOutStr, StrPtr,
                     SetMin({n \in 0..AsciiStrLen(StrPtr) :
                               \/ n = AsciiStrLen(StrPtr)
                               \/ CAt(StrPtr, n) = 61
                               \/ IsAsciiWhitespace(CAt(StrPtr, n))}))

AsciiExtractAttribute(InOutStr) ==
  AttributeStart(InOutStr, CFrom(InOutStr, ScanWs(InOutStr, 0, FALSE)))

\* AsciiGetPIData (PiData): PiTargetName and PiTargetData are NULL when not
\* assigned (DriverXmlAddPI sets both to NULL before the call).

\* StrPtr is the text after the target and the whitespace that follows it.
\* The data ends before "?>" or at the first byte that is no XML char.
PIDataAt(name, StrPtr) ==
  LET PiDataLength ==
        SetMin({n \in 0..AsciiStrLen(StrPtr) :
                  \/ ~IsAsciiXmlChar(CAt(StrPtr, n))
                  \/ CAt(StrPtr, n) = 63 /\ CAt(StrPtr, n + 1) = 62})
  IN  IF CAt(StrPtr, 0) = 63 /\ CAt(StrPtr, 1) = 62
      THEN [Status |-> "EFI_SUCCESS", PiTargetName |-> name, PiTargetData |-> NULL]
      ELSE [Status |-> "EFI_SUCCESS", PiTargetName |-> name,
            PiTargetData |-> IF PiDataLength >= 1 THEN SubSeq(StrPtr, 1, PiDataLength)
                             ELSE NULL]

\* after is the text that follows the target name.
PITarget(name, after) ==
  IF ~IsAsciiWhitespace(CAt(after, 0)) /\ ~IsAsciiXmlTagEndStr(after)
  THEN [Status |-> "EFI_INVALID_PARAMETER", PiTargetName |-> NULL, PiTargetData |-> NULL]
  ELSE PIDataAt(name, CFrom(after, ScanWs(after, 0, FALSE)))

PITargetOfLength(PiData, PiTargetLength) ==
  PITarget(SubSeq(CStr(PiData), 3, 2 + PiTargetLength), CFrom(PiData, 2 + PiTargetLength))

AsciiGetPIData(PiData) ==
  IF CAt(PiData, 0) # 60 \/ CAt(PiData, 1) # 63
  THEN [Status |-> "EFI_INVALID_PARAMETER", PiTargetName |-> NULL, PiTargetData |-> NULL]
  ELSE IF ~IsAsciiNameStartChar(CAt(PiData, 2))
  THEN [Status |-> "EFI_INVALID_PARAMETER", PiTargetName |-> NULL, PiTargetData |-> NULL]
  ELSE PITargetOfLength(PiData, NameLength(PiData, 2))

\* ---------------------------------------------------------------- node store

\* The heap is the sequence of every node allocated so far; a node's address
\* is its index.  One record shape serves the five node structures:
\*   DRIVER_XML_TAG                     XmlDataType, Name (TagName),
\*                                      TagAttributes, TagChildren
\*   DRIVER_XML_ATTRIBUTE               Name (AttributeName), Data (AttributeData)
\*   DRIVER_XML_CHAR_DATA               Data (CharData), DataSize
\*   DRIVER_XML_PROCESSING_INSTRUCTION  Name (PiTargetName), Data (PiTargetData)
\* A LIST_ANCHOR is a record [ListStart, ItemCount], ListStart being the nodes
\* linked in the list, in list order.  freed says the node went through
\* FreePool; Fwd is the DataLink.ForwardLink a removed node is left with: the
\* node that followed it, or 0 for the list head.
\* zeroed: the head was never given to InitializeListHead and holds the NULL
\* links AllocateZeroPool left in it.
EmptyList == [ListStart |-> <<>>, ItemCount |-> 0, zeroed |-> FALSE]

Node(type, name, data, size) ==
  [XmlDataType |-> type, Name |-> name, Data |-> data, DataSize |-> size,
   TagAttributes |-> EmptyList, TagChildren |-> EmptyList,
   freed |-> FALSE, Fwd |-> 0]

\* An InsertTail that links the node in at the head of the list.
InsertHead(h, owner, which, id) ==
  [h EXCEPT ![owner][which].ListStart = <<id>> \o @,
            ![owner][which].ItemCount = @ + 1]

\* InsertTailList and ItemCount++ on list `which` of node owner.
InsertTail(h, owner, which, id) ==
  [h EXCEPT ![owner][which].ListStart = Append(@, id),
            ![owner][which].ItemCount = @ + 1]

\* The index in sequence q of element e, 0 when e is not in q.
IndexOf(q, e) ==
  IF \E i \in 1..Len(q) : q[i] = e THEN SetMin({i \in 1..Len(q) : q[i] = e}) ELSE 0

Without(q, e) ==
  LET k == IndexOf(q, e)
  IN  IF k = 0 THEN q ELSE SubSeq(q, 1, k - 1) \o SubSeq(q, k + 1, Len(q))

\* RemoveEntryList (&Element->DataLink), ItemCount-- and FreePool (Element):
\* the node leaves the list it is linked in, keeps its own links and is freed.
RemoveAndFree(h, owner, which, id) ==
  LET q == h[owner][which].ListStart
      k == IndexOf(q, id)
      next == IF k = 0 \/ k = Len(q) THEN 0 ELSE q[k + 1]
  IN  [h EXCEPT ![owner][which].ListStart = Without(q, id),
                ![owner][which].ItemCount = @ - 1,
                ![id].freed = TRUE,
                ![id].Fwd = next]

DriverXmlAddAttribute(h, ParentElement, AtrributeName, AttributeData) ==
  InsertTail(Append(h, Node("XmlAttribute", AtrributeName, AttributeData, 0)),
             ParentElement, "TagAttributes", Len(h) + 1)

DriverXmlDeleteAttribute(h, owner, Attribute) ==
  RemoveAndFree(h, owner, "TagAttributes", Attribute)

DriverXmlCreateTag(h, owner, which, TagName, DataType) ==
  InsertTail(Append(h, Node(DataType, TagName, NULL, 0)), owner, which, Len(h) + 1)

DriverXmlCreateChildTag(h, ParentElement, ChildTagName, ChildDataType) ==
  DriverXmlCreateTag(h, ParentElement, "TagChildren", ChildTagName, ChildDataType)

\* A DriverXmlAddCharData that measures the string again, from its first
\* byte that is no whitespace, and does not use CharDataLen.
DriverXmlAddCharDataMeasured(h, owner, CharData, CharDataLen) ==
  InsertTail(Append(h, Node("XmlChar", NULL,
                            CFrom(CharData, ScanWs(CharData, 0, FALSE)),
                            AsciiStrLen(CharData) - ScanWs(CharData, 0, FALSE))),
             owner, "TagChildren", Len(h) + 1)

DriverXmlAddCharData(h, owner, CharData, CharDataLen) ==
  InsertTail(Append(h, Node("XmlChar", NULL, SubSeq(CStr(CharData), 1, CharDataLen),
                            CharDataLen)),
             owner, "TagChildren", Len(h) + 1)

\* DriverXmlAddPI once AsciiGetPIData has returned pi; its status is not
\* looked at.
AddPINode(h, ParentElement, pi) ==
  InsertTail(Append(h, Node("XmlPi", pi.PiTargetName, pi.PiTargetData, 0)),
             ParentElement, "TagChildren", Len(h) + 1)

DriverXmlAddPI(h, ParentElement, XmlString) ==
  AddPINode(h, ParentElement, AsciiGetPIData(XmlString))

\* GetNextXmlElement on list `which` of owner.  ThisItem is 0 for the list
\* head (&List->ListStart cast to a node), a node address, or -1 for a NULL
\* pointer.  A freed ThisItem is read through its stale link, and the head of
\* a zeroed list through its NULL link.  The result is the status and
\* *NextItem (-1 for NULL).
GetNextXmlElement(h, owner, which, ThisItem) ==
  LET q == h[owner][which].ListStart
      k == IndexOf(q, ThisItem)
      next == IF ThisItem = 0 THEN (IF q = <<>> THEN 0 ELSE q[1])
              ELSE IF h[ThisItem].freed \/ k = 0 THEN h[ThisItem].Fwd
              ELSE IF k = Len(q) THEN 0 ELSE q[k + 1]
  IN  IF ThisItem = -1 THEN [Status |-> "EFI_INVALID_PARAMETER", NextItem |-> ThisItem]
      ELSE IF ThisItem = 0 /\ h[owner][which].zeroed
        THEN [Status |-> "EFI_SUCCESS", NextItem |-> -1]
      ELSE IF next = 0 THEN [Status |-> "EFI_NOT_FOUND", NextItem |-> -1]
      ELSE [Status |-> "EFI_SUCCESS", NextItem |-> next]

\* GetXmlAttributeByName (Name, &owner->TagAttributes, &Node) gives the status
\* and *Node, which holds NodeIn when the call starts.
RECURSIVE FindAttributeFrom(_, _, _, _, _)

\* The body of the loop: nx is what GetNextXmlElement gave.
FindAttributePass(h, Name, owner, nx, NodeIn) ==
  IF nx.Status # "EFI_SUCCESS" \/ nx.NextItem = -1
    THEN [Status |-> "EFI_NOT_FOUND", Node |-> NodeIn]
  ELSE IF h[nx.NextItem].XmlDataType # "XmlAttribute"
    THEN FindAttributeFrom(h, Name, owner, nx.NextItem, NodeIn)
  ELSE IF AsciiStrCmp(h[nx.NextItem].Name, Name) = 0
    THEN [Status |-> "EFI_SUCCESS", Node |-> nx.NextItem]
  ELSE FindAttributeFrom(h, Name, owner, nx.NextItem, NodeIn)

\* The loop from LocalXmlData on (0 is the list head).
FindAttributeFrom(h, Name, owner, LocalXmlData, NodeIn) ==
  FindAttributePass(h, Name, owner,
                    GetNextXmlElement(h, owner, "TagAttributes", LocalXmlData), NodeIn)

GetXmlAttributeByName(h, Name, owner, NodeIn) ==
  IF h[owner].TagAttributes.ItemCount = 0
  THEN [Status |-> "EFI_NOT_FOUND", Node |-> NodeIn]
  ELSE FindAttributeFrom(h, Name, owner, 0, NodeIn)

\* GetXmlTagByName (TagName, &owner->TagChildren, &OutputTag) gives the
\* status, *OutputTag (which holds OutputTag when the call starts) and uninit:
\* Tag was read without having been assigned.
RECURSIVE GetXmlTagByName(_, _, _, _)

\* The body of the loop, which returns on every path: nx is what
\* GetNextXmlElement gave for the list head.  Tag is assigned only when the
\* node is a Tag or an EmptyTag; run quiet it holds NULL for any other node,
\* and the name read through it is the empty string.
TagByNamePass(h, TagName, nx, OutputTag) ==
  IF nx.Status # "EFI_SUCCESS" \/ nx.NextItem = -1
    THEN [Status |-> "EFI_NOT_FOUND", OutputTag |-> OutputTag, uninit |-> FALSE]
  ELSE IF h[nx.NextItem].XmlDataType \notin {"XmlTag", "XmlEmptyTag"}
    THEN [Status |-> IF AsciiStrCmp(NULL, TagName) = 0 THEN "EFI_SUCCESS"
                     ELSE "EFI_NOT_FOUND",
          OutputTag |-> IF AsciiStrCmp(NULL, TagName) = 0 THEN -1 ELSE OutputTag,
          uninit |-> TRUE]
  ELSE IF AsciiStrCmp(h[nx.NextItem].Name, TagName) = 0
    THEN [Status |-> "EFI_SUCCESS", OutputTag |-> nx.NextItem, uninit |-> FALSE]
  ELSE IF /\ h[nx.NextItem].XmlDataType = "XmlTag"
          /\ h[nx.NextItem].TagChildren.ItemCount > 0
    THEN [GetXmlTagByName(h, TagName, nx.NextItem, OutputTag)
            EXCEPT !.Status = "EFI_NOT_FOUND"]
  ELSE [Status |-> "EFI_NOT_FOUND", OutputTag |-> OutputTag, uninit |-> FALSE]

GetXmlTagByName(h, TagName, owner, OutputTag) ==
  IF h[owner].TagChildren.ItemCount = 0
  THEN [Status |-> "EFI_NOT_FOUND", OutputTag |-> OutputTag, uninit |-> FALSE]
  ELSE TagByNamePass(h, TagName, GetNextXmlElement(h, owner, "TagChildren", 0),
                     OutputTag)

\* The delete operations return the heap, the status, and two history flags:
\* uaf, a freed node was read; uninit, an uninitialised variable was read.
Clean(h, Status) == [h |-> h, Status |-> Status, uaf |-> FALSE, uninit |-> FALSE]

\* Result d of an operation that ran after the one that gave a.
Then(a, d) == [d EXCEPT !.uaf = @ \/ a.uaf, !.uninit = @ \/ a.uninit]

\* The status both list deleters end with: ItemCount decides.
ListStatus(r, owner, which) ==
  [r EXCEPT !.Status = IF r.h[owner][which].ItemCount # 0 THEN "EFI_ABORTED"
                       ELSE "EFI_SUCCESS"]

\* ChildData is passed to GetNextXmlElement before anything is assigned to it.
\* Run quiet it holds NULL: GetNextXmlElement reports EFI_INVALID_PARAMETER
\* and the loop body never runs.
DeleteAttributeList(h, owner) ==
  ListStatus([Clean(h, "EFI_SUCCESS") EXCEPT !.uninit = TRUE], owner, "TagAttributes")

RECURSIVE DriverXmlDeleteElement(_, _, _, _)
RECURSIVE DeleteElementLoop(_, _, _)

\* The body of DeleteElementList's loop: nx is what GetNextXmlElement gave.
DeleteElementPass(acc, owner, nx) ==
  IF nx.Status # "EFI_SUCCESS" THEN acc
  ELSE DeleteElementLoop(
         Then(acc, DriverXmlDeleteElement(acc.h, owner, "TagChildren", nx.NextItem)),
         owner, nx.NextItem)

\* The while loop of DeleteElementList from ChildData on: GetNextXmlElement
\* is asked for the node after ChildData, which the previous pass has freed.
DeleteElementLoop(acc, owner, ChildData) ==
  DeleteElementPass(
    [acc EXCEPT !.uaf = @ \/ (ChildData > 0 /\ acc.h[ChildData].freed)],
    owner, GetNextXmlElement(acc.h, owner, "TagChildren", ChildData))

DeleteElementList(h, owner) ==
  ListStatus(IF h[owner].TagChildren.ItemCount > 0
             THEN DeleteElementLoop(Clean(h, "EFI_SUCCESS"), owner, 0)
             ELSE Clean(h, "EFI_SUCCESS"),
             owner, "TagChildren")

DriverXmlDeleteEmptyTag(h, Element) ==
  IF h[Element].XmlDataType # "XmlEmptyTag"
  THEN Clean(h, "EFI_INVALID_PARAMETER")
  ELSE [DeleteAttributeList(h, Element) EXCEPT !.Status = "EFI_SUCCESS"]

\* DriverXmlDeleteTagAndChildren after DeleteAttributeList has returned a.
DeleteChildrenAfter(a, Element) ==
  [Then(a, DeleteElementList(a.h, Element)) EXCEPT !.Status = "EFI_SUCCESS"]

DriverXmlDeleteTagAndChildren(h, Element) ==
  IF h[Element].XmlDataType # "XmlTag"
  THEN Clean(h, "EFI_INVALID_PARAMETER")
  ELSE DeleteChildrenAfter(DeleteAttributeList(h, Element), Element)

\* The end of DriverXmlDeleteElement: e is what the deleter for the element's
\* type returned (its status is not looked at), stale says Element was
\* already freed when its type was read.
DeleteThisElement(e, owner, which, Element, stale) ==
  [h |-> RemoveAndFree(e.h, owner, which, Element), Status |-> "EFI_SUCCESS",
   uaf |-> e.uaf \/ stale, uninit |-> e.uninit]

\* Element is deleted from list `which` of owner.
DriverXmlDeleteElement(h, owner, which, Element) ==
  DeleteThisElement(
    IF h[Element].XmlDataType = "XmlEmptyTag"
      THEN DriverXmlDeleteEmptyTag(h, Element)
    ELSE IF h[Element].XmlDataType = "XmlTag"
      THEN DriverXmlDeleteTagAndChildren(h, Element)
    ELSE Clean(h, "EFI_SUCCESS"),
    owner, which, Element, h[Element].freed)

DriverXmlDeleteChildElement(h, ParentElement, Element) ==
  DriverXmlDeleteElement(h, ParentElement, "TagChildren", Element)

\* The body of ParseAttributes' loop: a is what AsciiExtractAttribute gave.
RECURSIVE ParseAttributesLoop(_, _, _)
ParseAttributesPass(h, Element, a) ==
  IF ~EFI_ERROR(a.Status)
  THEN ParseAttributesLoop(
         DriverXmlAddAttribute(h, Element, a.Attribute, a.AttribData),
         Element, a.InOutStr)
  ELSE IF a.Status # "EFI_NOT_FOUND"
  THEN [h |-> h, Status |-> "EFI_INVALID_PARAMETER"]
  ELSE [h |-> h, Status |-> a.Status]

\* The attributes ParseAttributes adds to Element from the text rest, until
\* AsciiExtractAttribute fails.
ParseAttributesLoop(h, Element, rest) ==
  ParseAttributesPass(h, Element, AsciiExtractAttribute(rest))

\* w is what IsAsciiXmlTagWithAttributes (Chunk, &FirstAttribute) gave.
ParseAttributesFrom(h, Element, Chunk, w) ==
  IF ~w.Result THEN [h |-> h, Status |-> "EFI_SUCCESS"]
  ELSE ParseAttributesLoop(h, Element, CFrom(Chunk, w.FirstAttribute))

ParseAttributes(h, Element, Chunk) ==
  ParseAttributesFrom(h, Element, Chunk, IsAsciiXmlTagWithAttributes(Chunk))

\* DriverXmlAddTag gives the heap and Node, the address returned (-1 for
\* NULL); it is the new element even when the element has just been deleted.
\* uninit: TagName is stored without AsciiGetTagNameFromElement having
\* assigned it.

\* del is what DriverXmlDeleteChildElement returned for the new element.
AddTagDeleted(LocalElement, del, uninit) ==
  [h |-> del.h, Node |-> LocalElement, uaf |-> del.uaf, uninit |-> del.uninit \/ uninit]

\* pa is what ParseAttributes returned for the new element.
AddTagParsed(ParentElement, LocalElement, pa, uninit) ==
  IF EFI_ERROR(pa.Status) /\ pa.Status # "EFI_NOT_FOUND"
  THEN AddTagDeleted(LocalElement,
                     DriverXmlDeleteChildElement(pa.h, ParentElement, LocalElement),
                     uninit)
  ELSE [h |-> pa.h, Node |-> LocalElement, uaf |-> FALSE, uninit |-> uninit]

\* nm is what AsciiGetTagNameFromElement returned; its status is not looked
\* at.
AddTagNamed(h, ParentElement, XmlString, DataType, nm) ==
  AddTagParsed(ParentElement, Len(h) + 1,
               ParseAttributes(
                 DriverXmlCreateChildTag(h, ParentElement, nm.ElementName, DataType),
                 Len(h) + 1, XmlString),
               EFI_ERROR(nm.Status))

DriverXmlAddTag(h, ParentElement, XmlString, DataType) ==
  IF /\ h[ParentElement].XmlDataType # "XmlTag"
     /\ h[ParentElement].XmlDataType # "XmlEmptyTag"
  THEN [h |-> h, Node |-> -1, uaf |-> FALSE, uninit |-> FALSE]
  ELSE AddTagNamed(h, ParentElement, XmlString, DataType,
                   AsciiGetTagNameFromElement(XmlString))

\* ------------------------------------------------------------- the parser

\* The byte found at offset DocumentSize, outside the buffer.  The file
\* buffer is an AllocatePool (FileSize) block, so the byte belongs to whatever
\* follows the block; it is fixed the first time the parser reads it.
Unread == -1

OobBytes == {0, Ascii[" "], Ascii["<"], Ascii[">"], Ascii["a"]}

\* *XmlTree of the caller before DriverXmlParse has stored anything in it.
Unassigned == 0

RootStr == Str(<<"R", "o", "o", "t">>)

\* What has happened so far in the call (history, not program state):
\*   uaf       a freed node was read or written
\*   uninit    an uninitialised variable was read
\*   mismatch  a close tag differed from the name of the open element
\*   failed    a ParseBranch call returned an error
\*   dropped   the error a nested ParseBranch returned was overwritten
NoHistory ==
  [uaf |-> FALSE, uninit |-> FALSE, mismatch |-> FALSE, failed |-> FALSE,
   dropped |-> FALSE]

\* The parser before DriverXmlParse is called.
Idle ==
  [pc |-> "idle", OperationPtr |-> 0, heap |-> <<>>, stack |-> <<>>,
   Status |-> "EFI_SUCCESS", XmlTree |-> Unassigned, Ret |-> "none",
   maxRead |-> -1, ub |-> FALSE, hist |-> NoHistory]

\* DriverXmlParse up to its loop.  (The first of the two Root allocations is
\* never referenced again and is left out of the heap.)
ParseEntry(m) ==
  [m EXCEPT !.pc = "top",
            !.heap = <<[Node("XmlTag", RootStr, NULL, 0)
                          EXCEPT !.TagAttributes.zeroed = TRUE]>>,
            !.OperationPtr = 0,
            !.Status = "EFI_SUCCESS",
            !.ub = FALSE]

\* The test of DriverXmlParse's loop, then either the call of ParseBranch on
\* Root or the end of DriverXmlParse.
ParseTop(m, DocSize) ==
  IF m.OperationPtr < DocSize /\ ~EFI_ERROR(m.Status)
  THEN [m EXCEPT !.pc = "branch", !.stack = <<1>>, !.ub = FALSE]
  ELSE [m EXCEPT !.pc = "done",
                 !.XmlTree = IF ~EFI_ERROR(m.Status) THEN 1 ELSE @,
                 !.Ret = "EFI_SUCCESS",
                 !.ub = FALSE]

\* ParseBranch returns st from the innermost frame.  The caller is either
\* DriverXmlParse, which keeps st in Status, or the XmlTag case of the
\* enclosing ParseBranch, which stores st and goes on with its loop.
BranchReturn(m, st) ==
  LET nested == Len(m.stack) > 1
  IN  [m EXCEPT !.stack = SubSeq(@, 1, Len(@) - 1),
                !.pc = IF nested THEN "branch" ELSE "top",
                !.Status = IF nested THEN @ ELSE st,
                !.hist.failed = @ \/ EFI_ERROR(st),
                !.hist.dropped = @ \/ (nested /\ EFI_ERROR(st))]

\* The XmlTag and XmlEmptyTag cases once DriverXmlAddTag has returned: an
\* XmlTag element becomes the Parent of a nested ParseBranch call.
TagCase(m2, ExtractedType, NewElement) ==
  IF ExtractedType # "XmlTag" THEN m2
  ELSE IF NewElement = -1 \/ m2.heap[NewElement].XmlDataType # "XmlTag" THEN m2
  ELSE IF Len(m2.stack) >= MaxDepth THEN [m2 EXCEPT !.pc = "fault"]
  ELSE [m2 EXCEPT !.stack = Append(@, NewElement)]

\* tag is what DriverXmlAddTag returned.
AfterAddTag(m1, ExtractedType, tag) ==
  TagCase([m1 EXCEPT !.heap = tag.h,
                     !.ub = @ \/ tag.uaf \/ tag.uninit,
                     !.hist.uaf = @ \/ tag.uaf,
                     !.hist.uninit = @ \/ tag.uninit],
          ExtractedType, tag.Node)

\* The XmlCloseTag case: nm is what AsciiGetTagNameFromElement returned (its
\* status is not looked at).
CloseTagCase(m1, Parent, nm) ==
  LET differ == AsciiStrCmp(nm.ElementName, m1.heap[Parent].Name) # 0
  IN  BranchReturn(
        [m1 EXCEPT !.ub = @ \/ EFI_ERROR(nm.Status),
                   !.hist.uninit = @ \/ EFI_ERROR(nm.Status),
                   !.hist.mismatch =
                      @ \/ (differ /\ ~EFI_ERROR(nm.Status) /\ Len(m1.stack) > 1)],
        IF differ THEN "EFI_DEVICE_ERROR" ELSE "EFI_SUCCESS")

\* The case for the chunk x that AsciiExtractMarkupOrText extracted; m1 is
\* the parser with the cursor moved past it, CharDataLen the number of bytes
\* the cursor moved.
ChunkCase(m1, Parent, x, CharDataLen) ==
  IF EFI_ERROR(x.Status)
    THEN IF x.Status = "EFI_END_OF_FILE"
           THEN IF AsciiStrCmp(m1.heap[Parent].Name, RootStr) = 0
                  THEN BranchReturn(m1, "EFI_SUCCESS")
                  ELSE BranchReturn(m1, "EFI_END_OF_FILE")
           ELSE BranchReturn(m1, x.Status)
  ELSE IF x.ExtractedType = "XmlPi"
    THEN [m1 EXCEPT !.heap = DriverXmlAddPI(@, Parent, x.XmlString)]
  ELSE IF x.ExtractedType = "XmlChar"
    THEN [m1 EXCEPT !.heap = DriverXmlAddCharData(@, Parent, x.XmlString, CharDataLen)]
  ELSE IF x.ExtractedType = "XmlTag" \/ x.ExtractedType = "XmlEmptyTag"
    THEN AfterAddTag(m1, x.ExtractedType,
                     DriverXmlAddTag(m1.heap, Parent, x.XmlString, x.ExtractedType))
  ELSE IF x.ExtractedType = "XmlCloseTag"
    THEN CloseTagCase(m1, Parent, AsciiGetTagNameFromElement(x.XmlString))
  ELSE m1

\* x is what AsciiExtractMarkupOrText returned at the cursor of m.  Parent is
\* read to get at its lists.
AfterExtract(m, Parent, x) ==
  ChunkCase([m EXCEPT !.OperationPtr = x.OperationPtr,
                      !.maxRead = Max2(@, x.hi),
                      !.ub = m.heap[Parent].freed \/ x.uninit,
                      !.hist.uaf = @ \/ m.heap[Parent].freed,
                      !.hist.uninit = @ \/ x.uninit],
            Parent, x, x.OperationPtr - m.OperationPtr)

\* One pass of ParseBranch's loop in the innermost frame: the loop test, the
\* extraction of a chunk at the cursor and the case for its type.  o is the
\* byte at offset DocumentSize.
ParseBranch(m, buf, o) ==
  IF ~(m.OperationPtr < Len(buf))
  THEN BranchReturn([m EXCEPT !.ub = FALSE], "EFI_SUCCESS")
  ELSE AfterExtract(m, m.stack[Len(m.stack)],
                    AsciiExtractMarkupOrText(buf, o, m.OperationPtr))

\* ---------------------------------------------------------- the serializer

MAX_TEMP_BUFFER_SIZE == 128

OUTPUT_DOCUMENT_ALLOCATE_STEP == 512

\* An XML_DOCUMENT used for output: XmlDocument holds the bytes written so
\* far, OperationPtr is the write offset (their number) and DocumentSize the
\* size of the buffer, whose other bytes are zero.
EmptyDocument == [XmlDocument |-> <<>>, DocumentSize |-> 0, OperationPtr |-> 0]

\* What AsciiSPrint puts for %a: the string, or a notice for a NULL pointer.
PrintA(p) ==
  IF p = NULL
  THEN Str(<<"<","n","u","l","l"," ","s","t","r","i","n","g",">">>)
  ELSE p

\* AsciiSPrint (Buffer, BufferSize, ...): text is the formatted string; the
\* buffer takes at most BufferSize - 1 bytes of it and a terminator.
AsciiSPrint(BufferSize, text) ==
  IF BufferSize < 1 THEN <<>>
  ELSE IF Len(text) < BufferSize THEN text
  ELSE SubSeq(text, 1, BufferSize - 1)

AsciiStrnLenS(String, MaxSize) ==
  IF AsciiStrLen(String) < MaxSize THEN AsciiStrLen(String) ELSE MaxSize

\* A ReallocateXmlDocument that leaves OperationPtr at the base of the new
\* buffer.
ReallocateXmlDocumentAtBase(d, NewSize) ==
  [d EXCEPT !.DocumentSize = NewSize, !.OperationPtr = 0]

\* The pool allocation succeeds.
ReallocateXmlDocument(d, NewSize) == [d EXCEPT !.DocumentSize = NewSize]

\* ReallocatePool returns NULL: ReallocateXmlDocument returns
\* EFI_OUT_OF_RESOURCES.  A document of size 0 has by then been given the
\* buffer AllocateZeroPool returned.
ReallocateXmlDocumentFailing(d, NewSize) ==
  IF d.DocumentSize = 0 /\ NewSize # 0
  THEN [d EXCEPT !.DocumentSize = NewSize, !.OperationPtr = 0]
  ELSE d

\* DocumentFreeSize is smaller than the n bytes about to be written.  It is
\* an unsigned difference: with the write offset beyond the buffer it is
\* huge.
OutOfSpace(d, n) ==
  d.OperationPtr <= d.DocumentSize /\ n > d.DocumentSize - d.OperationPtr

\* The size StringToDocument and PrintCharData ask for when they are out of
\* space for n bytes.
GrownSize(d, n) ==
  IF n > OUTPUT_DOCUMENT_ALLOCATE_STEP
  THEN d.DocumentSize + n + 1
  ELSE d.DocumentSize + OUTPUT_DOCUMENT_ALLOCATE_STEP

\* The growth step StringToDocument and PrintCharData share: n bytes are
\* about to be written.
MakeRoom(d, n) ==
  IF OutOfSpace(d, n) THEN ReallocateXmlDocument(d, GrownSize(d, n)) ELSE d

\* CopyMem of the first n bytes of String at the write offset: the bytes
\* before the offset and those after the copy stay as they are.
CopyToDocument(d, String, n) ==
  [d EXCEPT !.XmlDocument = SubSeq(@, 1, d.OperationPtr) \o SubSeq(String, 1, n)
                              \o SubSeq(@, d.OperationPtr + n + 1, Len(@)),
            !.OperationPtr = @ + n]

StringToDocument(String, d) ==
  CopyToDocument(MakeRoom(d, AsciiStrnLenS(String, MAX_TEMP_BUFFER_SIZE)), String,
                 AsciiStrnLenS(String, MAX_TEMP_BUFFER_SIZE))

\* The printers give the document after the node is printed; none of their
\* callers looks at the status.
PrintAttribute(h, Data, d) ==
  StringToDocument(
    AsciiSPrint(MAX_TEMP_BUFFER_SIZE,
                Str(<<" ">>) \o PrintA(h[Data].Name) \o Str(<<"=", "\"">>)
                  \o CStr(h[Data].Data) \o Str(<<"\"">>)),
    d)

RECURSIVE PrintData(_, _, _)
RECURSIVE PrintList(_, _, _, _, _, _)

\* The body of the loops of PrintTag, PrintEmptyTag and PrintWalkBranch: nx is
\* what GetNextXmlElement gave.  PrintEmptyTag's loop (only = TRUE) passes
\* over a node that is no attribute.
PrintListPass(h, owner, which, nx, only, d) ==
  IF nx.Status # "EFI_SUCCESS" \/ nx.NextItem = -1 THEN d
  ELSE PrintList(h, owner, which, nx.NextItem, only,
                 IF only /\ h[nx.NextItem].XmlDataType # "XmlAttribute" THEN d
                 ELSE PrintData(h, nx.NextItem, d))

\* The loop from node item on (0 is the list head).
PrintList(h, owner, which, item, only, d) ==
  PrintListPass(h, owner, which, GetNextXmlElement(h, owner, which, item), only, d)

PrintWalkBranch(h, owner, d) == PrintList(h, owner, "TagChildren", 0, FALSE, d)

\* The text PrintTag and PrintEmptyTag start with; its length is BufferOffset.
TagStart(h, Data) ==
  AsciiSPrint(MAX_TEMP_BUFFER_SIZE, Str(<<"<">>) \o PrintA(h[Data].Name))

\* The attribute loop of PrintTag and PrintEmptyTag, run when the list counts
\* at least one item.
PrintAttributes(h, Data, only, d) ==
  IF h[Data].TagAttributes.ItemCount > 0
  THEN PrintList(h, Data, "TagAttributes", 0, only, d)
  ELSE d

PrintChildren(h, Data, d) ==
  IF h[Data].TagChildren.ItemCount > 0 THEN PrintWalkBranch(h, Data, d) ELSE d

PrintTag(h, Data, d) ==
  StringToDocument(
    AsciiSPrint(MAX_TEMP_BUFFER_SIZE - Len(TagStart(h, Data)),
                Str(<<"<", "/">>) \o PrintA(h[Data].Name) \o Str(<<">">>)),
    PrintChildren(h, Data,
      StringToDocument(Str(<<">">>),
        PrintAttributes(h, Data, FALSE, StringToDocument(TagStart(h, Data), d)))))

PrintPi(h, Data, d) ==
  StringToDocument(
    AsciiSPrint(MAX_TEMP_BUFFER_SIZE,
                Str(<<"<", "?">>) \o PrintA(h[Data].Name) \o Str(<<" ">>)
                  \o PrintA(h[Data].Data) \o Str(<<"?", ">">>)),
    d)

PrintEmptyTag(h, Data, d) ==
  StringToDocument(
    AsciiSPrint(MAX_TEMP_BUFFER_SIZE - Len(TagStart(h, Data)), Str(<<"/", ">">>)),
    PrintAttributes(h, Data, TRUE, StringToDocument(TagStart(h, Data), d)))

PrintCharData(h, Data, d) ==
  CopyToDocument(MakeRoom(d, h[Data].DataSize), h[Data].Data, h[Data].DataSize)

\* The first printer that takes the node's type prints it; a node no printer
\* takes leaves the document as it is.
PrintData(h, Data, d) ==
  IF h[Data].XmlDataType = "XmlAttribute" THEN PrintAttribute(h, Data, d)
  ELSE IF h[Data].XmlDataType = "XmlTag" THEN PrintTag(h, Data, d)
  ELSE IF h[Data].XmlDataType = "XmlEmptyTag" THEN PrintEmptyTag(h, Data, d)
  ELSE IF h[Data].XmlDataType = "XmlPi" THEN PrintPi(h, Data, d)
  ELSE IF h[Data].XmlDataType = "XmlChar" THEN PrintCharData(h, Data, d)
  ELSE d

\* ------------------------------------------------------------ the inputs

\* An input document is a concatenation of at most MaxChunks of these pieces
\* of text.  kind, Name, Attributes and Data say what the piece is in XML
\* terms; only text reaches the parser.
Tok(text, kind, name, attrs, data) ==
  [text |-> Str(text), kind |-> kind, Name |-> name, Attributes |-> attrs, Data |-> data]

\* An attribute without a value has no data.
Attr(name, data) ==
  [Name |-> Str(name), Data |-> IF data = <<>> THEN NULL ELSE Str(data)]

Tokens ==
  << Tok(<<"<","a",">">>, "open", Str(<<"a">>), <<>>, NULL),
     Tok(<<"<","/","a",">">>, "close", Str(<<"a">>), <<>>, NULL),
     Tok(<<"<","b",">">>, "open", Str(<<"b">>), <<>>, NULL),
     Tok(<<"<","/","b",">">>, "close", Str(<<"b">>), <<>>, NULL),
     Tok(<<"<","a","/",">">>, "empty", Str(<<"a">>), <<>>, NULL),
     Tok(<<"h","i">>, "text", NULL, <<>>, Str(<<"h","i">>)),
     Tok(<<" ">>, "space", NULL, <<>>, Str(<<" ">>)),
     Tok(<<"<","?","p"," ","d","?",">">>, "pi", Str(<<"p">>), <<>>, Str(<<"d">>)),
     Tok(<<"<","?","p","?",">">>, "pi", Str(<<"p">>), <<>>, NULL),
     Tok(<<"<","a"," ","x","=","\"","1","\"",">">>, "open", Str(<<"a">>),
         <<Attr(<<"x">>, <<"1">>)>>, NULL),
     Tok(<<"<","b"," ","y","=","'","1","'","/",">">>, "empty", Str(<<"b">>),
         <<Attr(<<"y">>, <<"1">>)>>, NULL),
     Tok(<<"<","a"," ","x"," "," ","=","\"","1","\"",">">>, "open", Str(<<"a">>),
         <<Attr(<<"x">>, <<"1">>)>>, NULL),
     Tok(<<"<","R","o","o","t",">">>, "open", RootStr, <<>>, NULL),
     Tok(<<"<","!","-","-","c","-","-",">">>, "comment", NULL, <<>>, NULL),
     Tok(<<"<","a","b">>, "fragment", NULL, <<>>, NULL),
     Tok(<<"<","?","p"," ","?",">">>, "pi", Str(<<"p">>), <<>>, NULL),
     Tok(<<"<","b"," ","y","=","\"","\"","/",">">>, "empty", Str(<<"b">>),
         <<Attr(<<"y">>, <<>>)>>, NULL) >>

Docs == UNION {[1..n -> 1..Len(Tokens)] : n \in 0..MaxChunks}

RECURSIVE Flatten(_)
Flatten(d) == IF d = <<>> THEN <<>> ELSE Tokens[Head(d)].text \o Flatten(Tail(d))

\* ------------------------------------------- what a document should parse to

\* The tree of the node at address id: its type, name, data, attributes and
\* children, without addresses.
RECURSIVE TreeOf(_, _)
TreeOf(h, id) ==
  LET as == h[id].TagAttributes.ListStart
      cs == h[id].TagChildren.ListStart
  IN  [XmlDataType |-> h[id].XmlDataType, Name |-> h[id].Name, Data |-> h[id].Data,
       Attributes |-> [i \in 1..Len(as) |-> [Name |-> h[as[i]].Name, Data |-> h[as[i]].Data]],
       Children |-> [i \in 1..Len(cs) |-> TreeOf(h, cs[i])]]

Leaf(type, t) ==
  [XmlDataType |-> type, Name |-> t.Name, Data |-> t.Data,
   Attributes |-> t.Attributes, Children |-> <<>>]

\* Reading document d piece by piece as XML.  open holds, outermost first, the
\* elements not yet closed, each with the children read so far; open[1]
\* stands for the synthetic Root.  The verdict is "ok" with the tree the
\* document describes, or what is wrong with the document.
RECURSIVE Read(_, _)

\* Piece t is read, rest follows.
ReadPiece(t, rest, open) ==
  LET n    == Len(open)
      add(node) == [open EXCEPT ![n].Children = Append(@, node)]
  IN  IF t.kind = "open"
        THEN Read(rest, Append(open, Leaf("XmlTag", t)))
      ELSE IF t.kind = "close"
        THEN IF n = 1 THEN [verdict |-> "stray", tree |-> open[n]]
             ELSE IF t.Name # open[n].Name THEN [verdict |-> "mismatch", tree |-> open[n]]
             ELSE Read(rest, [SubSeq(open, 1, n - 1)
                                EXCEPT ![n - 1].Children = Append(@, open[n])])
      ELSE IF t.kind = "empty" THEN Read(rest, add(Leaf("XmlEmptyTag", t)))
      ELSE IF t.kind = "text" THEN Read(rest, add(Leaf("XmlChar", t)))
      ELSE IF t.kind = "pi" THEN Read(rest, add(Leaf("XmlPi", t)))
      ELSE IF t.kind = "comment" \/ t.kind = "space" THEN Read(rest, open)
      ELSE [verdict |-> "malformed", tree |-> open[n]]

Read(d, open) ==
  IF d = <<>>
  THEN [verdict |-> IF Len(open) = 1 THEN "ok" ELSE "unclosed", tree |-> open[Len(open)]]
  ELSE ReadPiece(Tokens[Head(d)], Tail(d), open)

RootLeaf ==
  [XmlDataType |-> "XmlTag", Name |-> RootStr, Data |-> NULL,
   Attributes |-> <<>>, Children |-> <<>>]

Reading(d) == Read(d, <<RootLeaf>>)

\* The tree of no parse.
NoTree ==
  [XmlDataType |-> "XmlNothing", Name |-> NULL, Data |-> NULL,
   Attributes |-> <<>>, Children |-> <<>>]

\* Document d is made of tags, attributes, character data and processing
\* instructions, and every element in it is closed by a close tag of its
\* name.  (A text piece next to another text or space piece would read as one
\* run of character data; such documents are left out.)
Readable(d) ==
  /\ \A i \in 1..Len(d) :
       /\ Tokens[d[i]].kind \in {"open", "close", "empty", "text", "pi", "space"}
       /\ (Tokens[d[i]].kind = "text" /\ i > 1)
            => Tokens[d[i - 1]].kind \notin {"text", "space"}
       /\ (Tokens[d[i]].kind = "text" /\ i < Len(d))
            => Tokens[d[i + 1]].kind \notin {"text", "space"}
  /\ Reading(d).verdict = "ok"

\* The top-level nodes of tree t hold exactly one element and no text.
OneElement(Children) ==
  /\ Cardinality({i \in 1..Len(Children) :
                    Children[i].XmlDataType \in {"XmlTag", "XmlEmptyTag"}}) = 1
  /\ \A i \in 1..Len(Children) : Children[i].XmlDataType # "XmlChar"

\* Document d is well-formed XML.
WellFormed(d) == Readable(d) /\ OneElement(Reading(d).tree.Children)

\* The type and name of each child of tree t, in order.
TopLevel(t) ==
  [i \in 1..Len(t.Children) |->
     [XmlDataType |-> t.Children[i].XmlDataType, Name |-> t.Children[i].Name]]

\* ------------------------------------------------------------- the state

VARIABLES
  doc,           \* the pieces the input file was built from
  XmlText,       \* the DocSize bytes handed to DriverXmlParse
  oob,           \* the byte at offset DocSize, Unread until it is read
  pc,            \* "idle", "top" (DriverXmlParse's loop), "branch" (a
                 \* ParseBranch frame is running), "done" (DriverXmlParse
                 \* has returned), "printed", "exit", "fault"
  OperationPtr,  \* Xml.OperationPtr as an offset into XmlText
  heap,          \* every node allocated so far
  stack,         \* the Parent of each active ParseBranch frame, outermost first
  Status,        \* DriverXmlParse's local Status
  XmlTree,       \* the caller's *XmlTree
  Ret,           \* what DriverXmlParse returned, "none" before it returns
  maxRead,       \* the highest offset of XmlText read so far, -1 for none
  hist,          \* history of the call, see NoHistory
  OutputDocument,\* the document PrintData writes
  phase,         \* 1: the input file is parsed and printed; 2: XmlText is
                 \* the printed text, parsed in its turn
  parsed,        \* the tree the input file parsed to, NoTree in phase 1
  last           \* the last call made on the node store, with what it was
                 \* given and what it gave

vars ==
  <<doc, XmlText, oob, pc, OperationPtr, heap, stack, Status, XmlTree, Ret,
    maxRead, hist, OutputDocument, phase, parsed, last>>

Machine ==
  [pc |-> pc, OperationPtr |-> OperationPtr, heap |-> heap, stack |-> stack,
   Status |-> Status, XmlTree |-> XmlTree, Ret |-> Ret, maxRead |-> maxRead,
   ub |-> FALSE, hist |-> hist]

Load(n) ==
  /\ pc' = n.pc
  /\ OperationPtr' = n.OperationPtr
  /\ heap' = n.heap
  /\ stack' = n.stack
  /\ Status' = n.Status
  /\ XmlTree' = n.XmlTree
  /\ Ret' = n.Ret
  /\ maxRead' = n.maxRead
  /\ hist' = n.hist

\* No call has been made on the node store.
NoCall == [op |-> "none"]

\* XmlTestEntryPoint has read the file named on its command line.
Loaded(Files) ==
  /\ doc \in Files
  /\ XmlText = Flatten(doc)
  /\ oob = Unread
  /\ pc = Idle.pc
  /\ OperationPtr = Idle.OperationPtr
  /\ heap = Idle.heap
  /\ stack = Idle.stack
  /\ Status = Idle.Status
  /\ XmlTree = Idle.XmlTree
  /\ Ret = Idle.Ret
  /\ maxRead = Idle.maxRead
  /\ hist = Idle.hist
  /\ OutputDocument = EmptyDocument
  /\ phase = 1
  /\ parsed = NoTree
  /\ last = NoCall

Init == Loaded(Docs)

\* XmlTestEntryPoint calls DriverXmlParse (FileBuffer, FileSize, &XmlTree).
DriverXmlParseCall ==
  /\ pc = "idle"
  /\ Load(ParseEntry(Machine))
  /\ UNCHANGED <<doc, XmlText, oob, OutputDocument, phase, parsed, last>>

\* The loop of DriverXmlParse: call ParseBranch on Root, or leave and return.
DriverXmlParseLoop ==
  /\ pc = "top"
  /\ Load(ParseTop(Machine, Len(XmlText)))
  /\ UNCHANGED <<doc, XmlText, oob, OutputDocument, phase, parsed, last>>

\* The parser takes the pass that leads to n.  A pass that runs into
\* undefined behaviour either faults or goes on quiet; o is the byte at
\* offset DocSize, fixed once the pass has read it.
TakePass(n, o, quiet) ==
  /\ oob' = IF n.maxRead >= Len(XmlText) THEN o ELSE oob
  /\ IF n.ub /\ ~quiet
       THEN /\ pc' = "fault"
            /\ hist' = n.hist
            /\ maxRead' = n.maxRead
            /\ UNCHANGED <<OperationPtr, heap, stack, Status, XmlTree, Ret>>
       ELSE Load(n)

\* One pass of the loop of the innermost ParseBranch frame.
ParseBranchPass ==
  /\ pc = "branch"
  /\ \E o \in OobBytes, quiet \in BOOLEAN :
       /\ oob = Unread \/ oob = o
       /\ TakePass(ParseBranch(Machine, XmlText, o), o, quiet)
  /\ UNCHANGED <<doc, XmlText, OutputDocument, phase, parsed, last>>

\* XmlTestEntryPoint after DriverXmlParse has returned: it leaves when the
\* status is an error, and otherwise prints the tree XmlTree points to into a
\* new document.  XmlTree is read as DriverXmlParse left it: when nothing
\* was stored in it the read is of an uninitialised pointer, and run quiet
\* it finds a node of type 0, which no printer takes.
PrintDataCall ==
  /\ pc = "done"
  /\ phase = 1
  /\ IF EFI_ERROR(Ret)
       THEN pc' = "exit" /\ UNCHANGED <<OutputDocument, hist>>
     ELSE IF XmlTree = Unassigned
       THEN /\ \E quiet \in BOOLEAN : pc' = IF quiet THEN "printed" ELSE "fault"
            /\ OutputDocument' = EmptyDocument
            /\ hist' = [hist EXCEPT !.uninit = TRUE]
     ELSE /\ pc' = "printed"
          /\ OutputDocument' = PrintData(heap, XmlTree, EmptyDocument)
          /\ hist' = hist
  /\ UNCHANGED <<doc, XmlText, oob, OperationPtr, heap, stack, Status, XmlTree, Ret,
                 maxRead, phase, parsed, last>>

Next ==
  \/ DriverXmlParseCall
  \/ DriverXmlParseLoop
  \/ ParseBranchPass
  \/ PrintDataCall

Spec == Init /\ [][Next]_vars

\* ---------------------------------------------------------- the round trip

\* The files of the round trip are the well-formed ones.
InitRoundTrip == Loaded({d \in Docs : WellFormed(d)})

\* DriverXmlParse is called on the bytes PrintData wrote.  The byte after
\* them is a zero of the document buffer unless the buffer is full.
DriverXmlParseAgain ==
  /\ pc = "printed"
  /\ phase = 1
  /\ XmlTree # Unassigned
  /\ phase' = 2
  /\ parsed' = TreeOf(heap, XmlTree)
  /\ XmlText' = OutputDocument.XmlDocument
  /\ oob' = IF OutputDocument.OperationPtr < OutputDocument.DocumentSize THEN 0
            ELSE Unread
  /\ Load(ParseEntry(Idle))
  /\ UNCHANGED <<doc, OutputDocument, last>>

NextRoundTrip ==
  \/ Next
  \/ DriverXmlParseAgain

RoundTripSpec == InitRoundTrip /\ [][NextRoundTrip]_vars

\* ---------------------------------------------- the node store on its own
\* A caller of the library builds a tree under a Root with the construction
\* functions, deletes from it and looks attributes up in it.

\* Everything the node store calls leave alone.
parserVars ==
  <<doc, XmlText, oob, OperationPtr, stack, Status, XmlTree, Ret, maxRead, hist,
    OutputDocument, phase, parsed>>

\* The caller starts with the Root DriverXmlParse makes.
InitStore ==
  /\ doc = <<>>
  /\ XmlText = <<>>
  /\ oob = Unread
  /\ pc = "store"
  /\ OperationPtr = 0
  /\ heap = ParseEntry(Idle).heap
  /\ stack = <<>>
  /\ Status = "EFI_SUCCESS"
  /\ XmlTree = 1
  /\ Ret = "none"
  /\ maxRead = -1
  /\ hist = NoHistory
  /\ OutputDocument = EmptyDocument
  /\ phase = 1
  /\ parsed = NoTree
  /\ last = NoCall

\* The nodes of the subtree of node id: id, its attributes, its descendants.
RECURSIVE Subtree(_, _)
Subtree(h, id) ==
  {id} \cup {h[id].TagAttributes.ListStart[i] : i \in 1..Len(h[id].TagAttributes.ListStart)}
       \cup UNION {Subtree(h, h[id].TagChildren.ListStart[i]) :
                     i \in 1..Len(h[id].TagChildren.ListStart)}

\* The nodes the caller can reach from the Root that have the two lists.
Elements(h) ==
  {n \in Subtree(h, 1) : h[n].XmlDataType \in {"XmlTag", "XmlEmptyTag"}}

\* The Tags among them: what the caller gives children to.
Tags(h) == {n \in Elements(h) : h[n].XmlDataType = "XmlTag"}

\* The names the caller uses for attributes.
AttributeNames == {Str(<<"a">>), Str(<<"A">>)}

\* The names the caller uses for tags.
TagNames == {Str(<<"a">>), Str(<<"b">>)}

\* A construction call has returned heap h.
Constructed(h) ==
  /\ heap' = h
  /\ last' = NoCall
  /\ UNCHANGED <<pc, parserVars>>

DriverXmlCreateChildTagCall ==
  /\ pc = "store"
  /\ Len(heap) < MaxNodes
  /\ \E ParentElement \in Tags(heap), DataType \in {"XmlTag", "XmlEmptyTag"},
        ChildTagName \in TagNames :
       Constructed(DriverXmlCreateChildTag(heap, ParentElement, ChildTagName, DataType))

\* DriverXmlAddTag takes any node as ParentElement and looks at its type
\* itself; the chunk has no attributes.
DriverXmlAddTagOnElement ==
  /\ pc = "store"
  /\ Len(heap) < MaxNodes
  /\ \E ParentElement \in Subtree(heap, 1), DataType \in {"XmlTag", "XmlEmptyTag"} :
       Constructed(DriverXmlAddTag(heap, ParentElement,
                                   IF DataType = "XmlTag" THEN Str(<<"<", "a", ">">>)
                                   ELSE Str(<<"<", "a", "/", ">">>),
                                   DataType).h)

\* The Root's attribute list head was never initialised: attributes go to the
\* elements DriverXmlCreateTag made.
DriverXmlAddAttributeCall ==
  /\ pc = "store"
  /\ Len(heap) < MaxNodes
  /\ \E ParentElement \in Elements(heap), AtrributeName \in AttributeNames :
       /\ ~heap[ParentElement].TagAttributes.zeroed
       /\ Constructed(DriverXmlAddAttribute(heap, ParentElement, AtrributeName,
                                            Str(<<"1">>)))

DriverXmlAddCharDataCall ==
  /\ pc = "store"
  /\ Len(heap) < MaxNodes
  /\ \E ParentElement \in Tags(heap) :
       Constructed(DriverXmlAddCharData(heap, ParentElement, Str(<<"h", "i">>), 2))

DriverXmlAddPICall ==
  /\ pc = "store"
  /\ Len(heap) < MaxNodes
  /\ \E ParentElement \in Tags(heap) :
       Constructed(DriverXmlAddPI(heap, ParentElement,
                                  Str(<<"<", "?", "p", " ", "d", "?", ">">>)))

DriverXmlDeleteAttributeCall ==
  /\ pc = "store"
  /\ \E owner \in Elements(heap) :
       \E i \in 1..Len(heap[owner].TagAttributes.ListStart) :
         /\ heap' = DriverXmlDeleteAttribute(heap, owner,
                                             heap[owner].TagAttributes.ListStart[i])
         /\ last' = [op |-> "DriverXmlDeleteAttribute", owner |-> owner,
                     Element |-> heap[owner].TagAttributes.ListStart[i]]
  /\ UNCHANGED <<pc, parserVars>>

\* DriverXmlDeleteElement (&ParentElement->TagChildren, Element) has given r.
\* When it read a freed node or an uninitialised variable the call either
\* faults or runs on quietly.
Deleted(ParentElement, Element, r, quiet) ==
  /\ quiet \/ r.uaf \/ r.uninit
  /\ pc' = IF quiet THEN pc ELSE "fault"
  /\ heap' = IF quiet THEN r.h ELSE heap
  /\ last' = [op |-> "DriverXmlDeleteElement", owner |-> ParentElement,
              Element |-> Element, before |-> heap, Status |-> r.Status,
              uaf |-> r.uaf, uninit |-> r.uninit]
  /\ UNCHANGED parserVars

DriverXmlDeleteElementCall ==
  /\ pc = "store"
  /\ \E ParentElement \in Tags(heap), quiet \in BOOLEAN :
       \E i \in 1..Len(heap[ParentElement].TagChildren.ListStart) :
         Deleted(ParentElement, heap[ParentElement].TagChildren.ListStart[i],
                 DriverXmlDeleteElement(heap, ParentElement, "TagChildren",
                                        heap[ParentElement].TagChildren.ListStart[i]),
                 quiet)

\* GetXmlAttributeByName (Name, &owner->TagAttributes, &Node) has given r;
\* Node held NodeIn.
Looked(owner, Name, NodeIn, r) ==
  /\ last' = [op |-> "GetXmlAttributeByName", owner |-> owner, Name |-> Name,
              NodeIn |-> NodeIn, before |-> heap, Status |-> r.Status,
              Node |-> r.Node]
  /\ UNCHANGED <<pc, heap, parserVars>>

GetXmlAttributeByNameCall ==
  /\ pc = "store"
  /\ \E owner \in Elements(heap), Name \in AttributeNames, NodeIn \in {-1} :
       Looked(owner, Name, NodeIn, GetXmlAttributeByName(heap, Name, owner, NodeIn))

\* GetXmlTagByName (TagName, &owner->TagChildren, &OutputTag) has given r;
\* OutputTag held TagIn.  When it read Tag unassigned the call either faults
\* or runs on quietly.
Searched(owner, TagName, TagIn, r, quiet) ==
  /\ quiet \/ r.uninit
  /\ pc' = IF quiet THEN pc ELSE "fault"
  /\ last' = [op |-> "GetXmlTagByName", owner |-> owner, Name |-> TagName,
              TagIn |-> TagIn, Status |-> r.Status, OutputTag |-> r.OutputTag,
              uninit |-> r.uninit]
  /\ UNCHANGED <<heap, parserVars>>

GetXmlTagByNameCall ==
  /\ pc = "store"
  /\ \E owner \in Tags(heap), TagName \in TagNames, quiet \in BOOLEAN :
       Searched(owner, TagName, -1, GetXmlTagByName(heap, TagName, owner, -1), quiet)

NextStore ==
  \/ DriverXmlCreateChildTagCall
  \/ DriverXmlAddTagOnElement
  \/ DriverXmlAddAttributeCall
  \/ DriverXmlAddCharDataCall
  \/ DriverXmlAddPICall
  \/ DriverXmlDeleteAttributeCall
  \/ DriverXmlDeleteElementCall
  \/ GetXmlAttributeByNameCall
  \/ GetXmlTagByNameCall

StoreSpec == InitStore /\ [][NextStore]_vars

\* ------------------------------------------ the chunk extractor on its own
\* A caller hands AsciiExtractMarkupOrText a buffer and calls it, as
\* ParseBranch does, while the cursor is before the end of the buffer and no
\* call has failed.

\* Markup in all the forms the extractor tells apart, with and without the
\* terminator.
Markup ==
  << Str(<<"<", "a", ">">>),
     Str(<<"<", "/", "a", ">">>),
     Str(<<"<", "a", "/", ">">>),
     Str(<<"<", "a", "b", "c", "d">>),
     Str(<<"<", "?", "p", " ", "d", "?", ">">>),
     Str(<<"<", "?", "p", " ", "d", "d", "d">>),
     Str(<<"<", "!", "-", "-", "c", "-", "-", ">">>),
     Str(<<"<", "!", "-", "-", "c", "c", "c">>),
     Str(<<"<", "!", "D", " ", "a", ">">>),
     Str(<<"<", "!", "D", " ", "a", "a">>),
     Str(<<"<", "!", "[", "x", "]", "]", ">">>),
     Str(<<"<", "!", "[", "x", "x", "x", "x">>),
     Str(<<"<", "!", "-", "x", ">">>) >>

\* The buffer holds one of them, with the text of at most one token before it
\* and after it; the byte that follows the buffer in memory is oob.
InitExtract ==
  /\ doc = <<>>
  /\ XmlText \in {Flatten(a) \o Markup[m] \o Flatten(b) :
                    a \in {d \in Docs : Len(d) <= 1},
                    b \in {d \in Docs : Len(d) <= 1},
                    m \in 1..Len(Markup)}
  /\ oob \in OobBytes
  /\ pc = "extract"
  /\ OperationPtr = 0
  /\ heap = <<>>
  /\ stack = <<>>
  /\ Status = "EFI_SUCCESS"
  /\ XmlTree = Unassigned
  /\ Ret = "none"
  /\ maxRead = -1
  /\ hist = NoHistory
  /\ OutputDocument = EmptyDocument
  /\ phase = 1
  /\ parsed = NoTree
  /\ last = NoCall

\* AsciiExtractMarkupOrText has given x.  When it read *XmlString unassigned
\* the call either faults or runs on quietly.
ExtractReturned(x, quiet) ==
  /\ quiet \/ x.uninit
  /\ pc' = IF quiet THEN pc ELSE "fault"
  /\ OperationPtr' = x.OperationPtr
  /\ Status' = x.Status
  /\ maxRead' = Max2(maxRead, x.hi)
  /\ last' = [op |-> "AsciiExtractMarkupOrText", from |-> OperationPtr,
              Status |-> x.Status, XmlString |-> x.XmlString,
              ExtractedType |-> x.ExtractedType, uninit |-> x.uninit]
  /\ UNCHANGED <<doc, XmlText, oob, heap, stack, XmlTree, Ret, hist,
                 OutputDocument, phase, parsed>>

AsciiExtractMarkupOrTextCall ==
  /\ pc = "extract"
  /\ ~EFI_ERROR(Status)
  /\ OperationPtr < Len(XmlText)
  /\ \E quiet \in BOOLEAN :
       ExtractReturned(AsciiExtractMarkupOrText(XmlText, oob, OperationPtr), quiet)

ExtractSpec == InitExtract /\ [][AsciiExtractMarkupOrTextCall]_vars

\* ------------------------------------------- the attributes of one tag

\* DriverXmlAddTag is followed through one tag chunk: the element is created,
\* ParseAttributes' loop calls AsciiExtractAttribute once per pass, and
\* DriverXmlAddTag deletes the element when the loop ended on an error other
\* than EFI_NOT_FOUND.  doc holds the pieces the chunk is written from,
\* XmlText the chunk, OperationPtr the offset of Attribute in it, stack the
\* parent and the new element, last the last call of AsciiExtractAttribute.

\* The chunk written from pieces p: `<a `, a name, whitespace, `=`,
\* whitespace, a quote, a value, a quote, and what follows the attribute.
TagText(p) ==
  Str(<<"<", "a", " ">>) \o p.name \o p.ws1 \o p.eq \o p.ws2 \o p.open
    \o p.value \o p.close \o p.tail

\* Every piece may be absent.  A chunk without a `>` is what
\* AsciiExtractXmlTag gives for a tag the buffer ends in.
InitAttributes ==
  /\ doc \in {p \in [name  : {<<>>, Str(<<"x">>)},
                     ws1   : {<<>>, <<32>>, <<9>>, <<32, 32>>, <<13, 10>>},
                     eq    : {<<>>, <<61>>},
                     ws2   : {<<>>, <<32>>, <<32, 9>>},
                     open  : {<<>>, <<34>>, <<39>>},
                     value : {<<>>, <<49>>, <<34>>, <<39>>, <<49, 39, 50>>},
                     close : {<<>>, <<34>>, <<39>>},
                     tail  : {<<>>, Str(<<">">>), Str(<<"/", ">">>), Str(<<" ", ">">>),
                              Str(<<" ", "y", "=", "'", "1", "'", ">">>)}] :
                p.name = <<>> =>
                  p.ws1 \o p.eq \o p.ws2 \o p.open \o p.value \o p.close = <<>>}
  /\ XmlText = TagText(doc)
  /\ oob = Unread
  /\ pc = "add tag"
  /\ OperationPtr = 0
  /\ heap = ParseEntry(Idle).heap
  /\ stack = <<>>
  /\ Status = "EFI_SUCCESS"
  /\ XmlTree = 1
  /\ Ret = "none"
  /\ maxRead = -1
  /\ hist = NoHistory
  /\ OutputDocument = EmptyDocument
  /\ phase = 1
  /\ parsed = NoTree
  /\ last = NoCall

\* DriverXmlAddTag (XmlTree, XmlText, DataType) up to the loop of
\* ParseAttributes, which is not entered when IsAsciiXmlTagWithAttributes
\* says no.
DriverXmlAddTagCall ==
  /\ pc = "add tag"
  /\ heap' = DriverXmlCreateChildTag(
               heap, XmlTree, AsciiGetTagNameFromElement(XmlText).ElementName,
               IF IsAsciiEmptyElementXmlTag(XmlText) THEN "XmlEmptyTag" ELSE "XmlTag")
  /\ stack' = <<XmlTree, Len(heap) + 1>>
  /\ pc' = IF IsAsciiXmlTagWithAttributes(XmlText).Result THEN "attributes" ELSE "parsed"
  /\ OperationPtr' = IsAsciiXmlTagWithAttributes(XmlText).FirstAttribute
  /\ Status' = "EFI_SUCCESS"
  /\ last' = NoCall
  /\ UNCHANGED <<doc, XmlText, oob, XmlTree, Ret, maxRead, hist, OutputDocument,
                 phase, parsed>>

\* One pass of ParseAttributes' loop.
ParseAttributesStep ==
  /\ pc = "attributes"
  /\ LET a == AsciiExtractAttribute(CFrom(XmlText, OperationPtr))
     IN  /\ last' = [op |-> "AsciiExtractAttribute", from |-> OperationPtr,
                     Status |-> a.Status, Attribute |-> a.Attribute,
                     AttribData |-> a.AttribData,
                     InOutStr |-> Len(XmlText) - AsciiStrLen(a.InOutStr)]
         /\ OperationPtr' = Len(XmlText) - AsciiStrLen(a.InOutStr)
         /\ heap' = IF EFI_ERROR(a.Status) THEN heap
                    ELSE DriverXmlAddAttribute(heap, stack[2], a.Attribute, a.AttribData)
         /\ Status' = IF EFI_ERROR(a.Status) /\ a.Status # "EFI_NOT_FOUND"
                      THEN "EFI_INVALID_PARAMETER" ELSE a.Status
         /\ pc' = IF EFI_ERROR(a.Status) THEN "parsed" ELSE pc
  /\ UNCHANGED <<doc, XmlText, oob, stack, XmlTree, Ret, maxRead, hist, OutputDocument,
                 phase, parsed>>

\* DriverXmlAddTag once ParseAttributes has returned Status.  Deleting the
\* element reads an unassigned variable: the call either faults or runs on
\* quietly.
DriverXmlAddTagReturn ==
  /\ pc = "parsed"
  /\ \E quiet \in BOOLEAN :
       LET del == IF EFI_ERROR(Status) /\ Status # "EFI_NOT_FOUND"
                  THEN DriverXmlDeleteChildElement(heap, stack[1], stack[2])
                  ELSE Clean(heap, "EFI_SUCCESS")
       IN  /\ quiet \/ del.uaf \/ del.uninit
           /\ pc' = IF quiet THEN "added" ELSE "fault"
           /\ heap' = IF quiet THEN del.h ELSE heap
           /\ hist' = [hist EXCEPT !.uaf = @ \/ del.uaf, !.uninit = @ \/ del.uninit]
  /\ UNCHANGED <<doc, XmlText, oob, OperationPtr, stack, Status, XmlTree, Ret, maxRead,
                 OutputDocument, phase, parsed, last>>

NextAttributes ==
  \/ DriverXmlAddTagCall
  \/ ParseAttributesStep
  \/ DriverXmlAddTagReturn

AttributeSpec == InitAttributes /\ [][NextAttributes]_vars

\* ------------------------------------------- the output document on its own

\* A caller writes to an output document that starts empty, with
\* StringToDocument, PrintCharData and PrintTag, at most MaxWrites times.
\* hist counts the calls and the bytes they were given to write and says
\* whether a ReallocatePool failed; last is the last call, with the document
\* it was given.

InitDocument ==
  /\ doc = <<>>
  /\ XmlText = <<>>
  /\ oob = Unread
  /\ pc = "write"
  /\ OperationPtr = 0
  /\ heap = <<>>
  /\ stack = <<>>
  /\ Status = "EFI_SUCCESS"
  /\ XmlTree = Unassigned
  /\ Ret = "none"
  /\ maxRead = -1
  /\ hist = [writes |-> 0, bytes |-> 0, failed |-> FALSE]
  /\ OutputDocument = EmptyDocument
  /\ phase = 1
  /\ parsed = NoTree
  /\ last = NoCall

\* StringToDocument or PrintCharData (op) is given n bytes of String to
\* write; ok says whether ReallocatePool succeeds when it is called.  room is
\* the document once ReallocateXmlDocument has returned, whose status is not
\* looked at.  A CopyMem that ends beyond the buffer either faults or runs on
\* quietly.  Both functions return EFI_SUCCESS.
DocumentWritten(op, String, n, ok, quiet) ==
  LET room == IF ok THEN MakeRoom(OutputDocument, n)
              ELSE ReallocateXmlDocumentFailing(OutputDocument,
                                                GrownSize(OutputDocument, n))
  IN  /\ ok \/ OutOfSpace(OutputDocument, n)
      /\ quiet \/ room.OperationPtr + n > room.DocumentSize
      /\ pc' = IF quiet THEN pc ELSE "fault"
      /\ OutputDocument' = IF quiet THEN CopyToDocument(room, String, n) ELSE room
      /\ Status' = "EFI_SUCCESS"
      /\ hist' = [writes |-> hist.writes + 1, bytes |-> hist.bytes + n,
                  failed |-> hist.failed \/ ~ok]
      /\ last' = [op |-> op, String |-> String, n |-> n, before |-> OutputDocument,
                  ok |-> ok]
      /\ UNCHANGED <<doc, XmlText, oob, OperationPtr, heap, stack, XmlTree, Ret,
                     maxRead, phase, parsed>>

\* The strings are what the printers format in their temporary buffer.
StringToDocumentCall ==
  /\ pc = "write"
  /\ hist.writes < MaxWrites
  /\ \E len \in {1, 100}, ok \in BOOLEAN, quiet \in BOOLEAN :
       DocumentWritten("StringToDocument", [i \in 1..len |-> 97],
                       AsciiStrnLenS([i \in 1..len |-> 97], MAX_TEMP_BUFFER_SIZE),
                       ok, quiet)

\* The node printed is a CharacterData node of DataSize bytes.
PrintCharDataCall ==
  /\ pc = "write"
  /\ hist.writes < MaxWrites
  /\ \E DataSize \in {1, 511, 512, 513}, ok \in BOOLEAN, quiet \in BOOLEAN :
       DocumentWritten("PrintCharData", [i \in 1..DataSize |-> 104], DataSize,
                       ok, quiet)

\* The node printed is a Tag without attributes and children whose name has
\* len bytes; every ReallocatePool succeeds.
PrintTagCall ==
  /\ pc = "write"
  /\ hist.writes < MaxWrites
  /\ ~hist.failed
  /\ \E len \in {1, 61, 62, 126} :
       /\ OutputDocument' =
            PrintTag(<<Node("XmlTag", [i \in 1..len |-> 97], NULL, 0)>>, 1,
                     OutputDocument)
       /\ last' = [op |-> "PrintTag", String |-> [i \in 1..len |-> 97], n |-> len,
                   before |-> OutputDocument, ok |-> TRUE]
       /\ hist' = [hist EXCEPT !.writes = @ + 1,
                               !.bytes = @ + OutputDocument'.OperationPtr
                                           - OutputDocument.OperationPtr]
  /\ UNCHANGED <<doc, XmlText, oob, pc, OperationPtr, heap, stack, Status, XmlTree, Ret,
                 maxRead, phase, parsed>>

NextDocument ==
  \/ StringToDocumentCall
  \/ PrintCharDataCall
  \/ PrintTagCall

DocumentSpec == InitDocument /\ [][NextDocument]_vars

\* --------------------------------------------------------------- claims

\* C1: when a close tag's name differs from the name of the innermost open
\* tag, at any depth, DriverXmlParse returns EFI_DEVICE_ERROR and hands no
\* tree back.
C1_MismatchIsDeviceError ==
  (pc = "done" /\ Reading(doc).verdict = "mismatch")
    => (Ret = "EFI_DEVICE_ERROR" /\ XmlTree = Unassigned)

\* C2: when an element is opened and the buffer ends before its close tag,
\* DriverXmlParse returns EFI_END_OF_FILE.
C2_TruncationIsEndOfFile ==
  (pc = "done" /\ Reading(doc).verdict = "unclosed") => Ret = "EFI_END_OF_FILE"

\* C3: the status DriverXmlParse returns is success exactly when no
\* ParseBranch call failed, and *XmlTree is assigned exactly when the status
\* returned is success.
C3_ReturnIsTerminalStatus ==
  pc = "done" =>
    /\ (Ret = "EFI_SUCCESS") <=> ~hist.failed
    /\ (XmlTree # Unassigned) <=> (Ret = "EFI_SUCCESS")

\* C4: whenever DriverXmlParse hands a tree back, the node is a Tag named
\* "Root" with an empty attribute list, and its child list holds exactly the
\* top-level nodes of the document, in document order, ItemCount being their
\* number.
C4_RootHoldsTopLevelNodes ==
  (pc = "done" /\ phase = 1 /\ XmlTree # Unassigned) =>
    /\ heap[XmlTree].XmlDataType = "XmlTag"
    /\ heap[XmlTree].Name = RootStr
    /\ heap[XmlTree].TagAttributes.ItemCount = 0
    /\ heap[XmlTree].TagAttributes.ListStart = <<>>
    /\ heap[XmlTree].TagChildren.ItemCount = Len(heap[XmlTree].TagChildren.ListStart)
    /\ Readable(doc) => TopLevel(TreeOf(heap, XmlTree)) = TopLevel(Reading(doc).tree)

\* C5: for every well-formed input the tree DriverXmlParse builds mirrors the
\* text: each start tag gives a Tag node with the tag's attributes in textual
\* order and, as children, the nodes of the chunks up to its close tag, in
\* document order.
C5_TreeMirrorsText ==
  (pc = "done" /\ phase = 1 /\ WellFormed(doc)) =>
    /\ XmlTree # Unassigned
    /\ TreeOf(heap, XmlTree) = Reading(doc).tree

\* C6: round trip: parsing the text PrintData wrote for the tree of a
\* well-formed input gives a tree identical to that tree (or, the printed
\* text being wrapped in a Root element, a tree whose only top-level node is
\* identical to it).
C6_RoundTrip ==
  (pc = "done" /\ phase = 2) =>
    /\ XmlTree # Unassigned
    /\ \/ TreeOf(heap, XmlTree) = parsed
       \/ TreeOf(heap, XmlTree).Children = <<parsed>>

\* C7: no byte at an offset >= DocSize is read during DriverXmlParse.
C7_NoReadPastBuffer == maxRead < Len(XmlText)

\* C8: DriverXmlParse terminates: every pass of a ParseBranch loop, and with
\* it every pass of DriverXmlParse's loop, either strictly advances the cursor
\* or ends the parse with an error.
C8_EveryPassAdvances ==
  [][(pc = "branch" /\ OperationPtr < Len(XmlText) /\ pc' # "fault")
       => \/ OperationPtr' > OperationPtr
          \/ pc' = "top" /\ EFI_ERROR(Status')]_vars

\* C9: DriverXmlDeleteElement on a Tag that is a member of the given list
\* frees exactly the nodes of the Tag's subtree (its attributes and every
\* descendant), leaves both lists of the Tag empty with count 0, takes exactly
\* one off the parent list's ItemCount, leaves the other members of the parent
\* list in their order, and reads no node that has been freed.
C9_DeleteRemovesSubtree ==
  (last.op = "DriverXmlDeleteElement"
     /\ last.before[last.Element].XmlDataType = "XmlTag") =>
    /\ ~last.uaf
    /\ pc = "store" =>
         /\ {n \in 1..Len(heap) : heap[n].freed}
              = {n \in 1..Len(heap) : last.before[n].freed}
                  \cup Subtree(last.before, last.Element)
         /\ heap[last.Element].TagAttributes.ListStart = <<>>
         /\ heap[last.Element].TagAttributes.ItemCount = 0
         /\ heap[last.Element].TagChildren.ListStart = <<>>
         /\ heap[last.Element].TagChildren.ItemCount = 0
         /\ heap[last.owner].TagChildren.ItemCount
              = last.before[last.owner].TagChildren.ItemCount - 1
         /\ heap[last.owner].TagChildren.ListStart
              = Without(last.before[last.owner].TagChildren.ListStart, last.Element)

\* The attributes of the list GetXmlAttributeByName was given whose name is
\* Name, byte for byte, as positions in the list.
C10_Matches ==
  {i \in 1..Len(heap[last.owner].TagAttributes.ListStart) :
     heap[heap[last.owner].TagAttributes.ListStart[i]].Name = last.Name}

\* C10: GetXmlAttributeByName returns EFI_SUCCESS with *Node the first
\* attribute in list order whose name equals Name byte for byte (the earliest
\* of duplicates), and EFI_NOT_FOUND with *Node as it was when no attribute
\* matches or the list is empty; the list is as it was before the call.
C10_FirstMatchOrNotFound ==
  last.op = "GetXmlAttributeByName" =>
    /\ heap = last.before
    /\ IF C10_Matches # {}
       THEN /\ last.Status = "EFI_SUCCESS"
            /\ last.Node = heap[last.owner].TagAttributes.ListStart[SetMin(C10_Matches)]
       ELSE /\ last.Status = "EFI_NOT_FOUND"
            /\ last.Node = last.NodeIn

\* A lookup of a name that two attributes of the list carry has returned the
\* first of the two.
C10_Witness ==
  /\ last.op = "GetXmlAttributeByName"
  /\ last.Status = "EFI_SUCCESS"
  /\ Cardinality(C10_Matches) >= 2
  /\ last.Node = heap[last.owner].TagAttributes.ListStart[SetMin(C10_Matches)]
  /\ last.Node # last.NodeIn

\* The Tag and EmptyTag nodes below list q of heap h in document order: each
\* node of the list in turn, a Tag followed by what is below its children.
RECURSIVE C11_DocumentOrder(_, _)
C11_DocumentOrder(h, q) ==
  IF q = <<>> THEN <<>>
  ELSE (IF h[q[1]].XmlDataType \in {"XmlTag", "XmlEmptyTag"}
        THEN <<q[1]>> \o C11_DocumentOrder(h, h[q[1]].TagChildren.ListStart)
        ELSE <<>>)
       \o C11_DocumentOrder(h, Tail(q))

\* The positions in that order, for the list the last call was given, of the
\* nodes whose name is the name looked for.
C11_Matches ==
  {i \in 1..Len(C11_DocumentOrder(heap, heap[last.owner].TagChildren.ListStart)) :
     heap[C11_DocumentOrder(heap, heap[last.owner].TagChildren.ListStart)[i]].Name
       = last.Name}

\* C11: GetXmlTagByName returns EFI_SUCCESS with *OutputTag the first Tag or
\* EmptyTag in document order, among all descendants of the list, whose name
\* equals TagName, and EFI_NOT_FOUND only when no descendant has that name.
C11_FirstInDocumentOrder ==
  (last.op = "GetXmlTagByName" /\ pc = "store") =>
    IF C11_Matches # {}
    THEN /\ last.Status = "EFI_SUCCESS"
         /\ last.OutputTag
              = C11_DocumentOrder(heap, heap[last.owner].TagChildren.ListStart)
                  [SetMin(C11_Matches)]
    ELSE last.Status = "EFI_NOT_FOUND"

\* The compact text of node id of heap h, and of the nodes of list q one
\* after the other; a name or a value that is absent renders as nothing.
RECURSIVE C12_Text(_, _)
RECURSIVE C12_Each(_, _)
C12_Each(h, q) ==
  IF q = <<>> THEN <<>> ELSE C12_Text(h, q[1]) \o C12_Each(h, Tail(q))

C12_Text(h, id) ==
  CASE h[id].XmlDataType = "XmlTag" ->
         Str(<<"<">>) \o CStr(h[id].Name) \o C12_Each(h, h[id].TagAttributes.ListStart)
           \o Str(<<">">>) \o C12_Each(h, h[id].TagChildren.ListStart)
           \o Str(<<"<", "/">>) \o CStr(h[id].Name) \o Str(<<">">>)
    [] h[id].XmlDataType = "XmlEmptyTag" ->
         Str(<<"<">>) \o CStr(h[id].Name) \o C12_Each(h, h[id].TagAttributes.ListStart)
           \o Str(<<"/", ">">>)
    [] h[id].XmlDataType = "XmlAttribute" ->
         Str(<<" ">>) \o CStr(h[id].Name) \o Str(<<"=", "\"">>) \o CStr(h[id].Data)
           \o Str(<<"\"">>)
    [] h[id].XmlDataType = "XmlPi" ->
         Str(<<"<", "?">>) \o CStr(h[id].Name) \o Str(<<" ">>) \o CStr(h[id].Data)
           \o Str(<<"?", ">">>)
    [] OTHER -> SubSeq(CStr(h[id].Data), 1, h[id].DataSize)

\* C12: PrintData appends exactly the compact text of the node: `<name`, the
\* attributes as ` name="value"` in list order, `>`, the children in list
\* order and `</name>` for a Tag; `<name`, the attributes and `/>` for an
\* EmptyTag; `<?target data?>` for a PI; the DataSize bytes of character data;
\* and nothing else.  (Checked for the trees of parses in which no freed node
\* and no unassigned variable was read.)
C12_PrintsCompactText ==
  (pc = "printed" /\ phase = 1 /\ XmlTree # Unassigned
     /\ ~hist.uninit /\ ~hist.uaf) =>
    /\ OutputDocument.XmlDocument = C12_Text(heap, XmlTree)
    /\ OutputDocument.OperationPtr = Len(C12_Text(heap, XmlTree))

\* C13: once a close-tag mismatch has been detected in a ParseBranch frame,
\* the parse stops: no step extracts another chunk, the cursor does not move
\* again and no node is added to the tree.
C13_MismatchStopsTheParse ==
  [][(hist.mismatch /\ phase = 1) =>
       /\ OperationPtr' = OperationPtr
       /\ heap' = heap
       /\ maxRead' = maxRead]_vars

\* The offset of the first byte of buf at or after from that is no
\* whitespace; Len(buf) when there is none.
C14_Start(buf, from) ==
  SetMin({p \in from..(Len(buf) - 1) : ~IsAsciiWhitespace(buf[p + 1])} \cup {Len(buf)})

\* The terminator of the markup chunk that starts at offset s of buf, told
\* from the chunk's leading bytes.
C14_Terminator(buf, s) ==
  IF SubSeq(buf, s + 1, s + 2) = Str(<<"<", "?">>) THEN Str(<<"?", ">">>)
  ELSE IF SubSeq(buf, s + 1, s + 4) = Str(<<"<", "!", "-", "-">>)
    THEN Str(<<"-", "-", ">">>)
  ELSE IF SubSeq(buf, s + 1, s + 3) = Str(<<"<", "!", "[">>)
    THEN Str(<<"]", "]", ">">>)
  ELSE Str(<<">">>)

\* term lies in buf somewhere after offset s.
C14_Terminated(buf, s, term) ==
  \E p \in (s + 1)..(Len(buf) - Len(term)) : SubSeq(buf, p + 1, p + Len(term)) = term

\* chunk ends with term.
C14_Ends(chunk, term) ==
  /\ Len(chunk) >= Len(term)
  /\ SubSeq(chunk, Len(chunk) - Len(term) + 1, Len(chunk)) = term

\* The call started on a markup chunk at offset s that the buffer has room to
\* scan: a status of EFI_END_OF_FILE when the terminator is missing, and no
\* success with a chunk that lacks it.
C14_Holds(buf, s, term) ==
  (s + 4 <= Len(buf) /\ buf[s + 1] = 60) =>
    /\ ~C14_Terminated(buf, s, term) => last.Status = "EFI_END_OF_FILE"
    /\ last.Status = "EFI_SUCCESS" => C14_Ends(CStr(last.XmlString), term)

\* C14: AsciiExtractMarkupOrText fails with EFI_END_OF_FILE whenever the scan
\* for the terminator of a markup chunk (`>`, `?>`, `-->`, `]]>`) reaches the
\* end of the buffer without finding it, and never returns success with a
\* chunk that lacks its terminator.
C14_UnterminatedIsEndOfFile ==
  (last.op = "AsciiExtractMarkupOrText" /\ pc = "extract") =>
    C14_Holds(XmlText, C14_Start(XmlText, last.from),
              C14_Terminator(XmlText, C14_Start(XmlText, last.from)))

\* The offset just after the first term of buf that starts after offset s.
C15_End(buf, s, term) ==
  SetMin({p \in (s + 1)..(Len(buf) - Len(term)) :
            SubSeq(buf, p + 1, p + Len(term)) = term}) + Len(term)

\* The call succeeded on the markup chunk at offset s, whose terminator term
\* is in the buffer: the cursor is just after the terminator and the text is
\* the buffer from s to the cursor.
C15_Holds(buf, s, term) ==
  (s < Len(buf) /\ buf[s + 1] = 60 /\ C14_Terminated(buf, s, term)) =>
    /\ OperationPtr = C15_End(buf, s, term)
    /\ CStr(last.XmlString) = SubSeq(buf, s + 1, OperationPtr)

\* C15: whenever AsciiExtractMarkupOrText succeeds on a markup chunk, the
\* cursor ends just after the chunk's terminator and the text returned is the
\* bytes from the chunk's `<` to the cursor, wherever in the buffer the
\* terminator is, its last bytes included.
C15_CursorAfterTerminator ==
  (last.op = "AsciiExtractMarkupOrText" /\ pc = "extract"
     /\ last.Status = "EFI_SUCCESS") =>
    C15_Holds(XmlText, C14_Start(XmlText, last.from),
              C14_Terminator(XmlText, C14_Start(XmlText, last.from)))

\* The kind of the tag chunk that runs from offset s of buf to its first `>`.
C16_TagKind(chunk) ==
  IF SubSeq(chunk, 1, 2) = Str(<<"<", "/">>) THEN "XmlCloseTag"
  ELSE IF C14_Ends(chunk, Str(<<"/", ">">>)) THEN "XmlEmptyTag"
  ELSE "XmlTag"

\* The kind of the markup chunk at offset s of buf, from its leading bytes
\* and, for a tag, its trailing bytes.
C16_Kind(buf, s) ==
  IF SubSeq(buf, s + 1, s + 4) = Str(<<"<", "!", "-", "-">>) THEN "XmlComment"
  ELSE IF SubSeq(buf, s + 1, s + 2) = Str(<<"<", "?">>) THEN "XmlPi"
  ELSE IF SubSeq(buf, s + 1, s + 2) = Str(<<"<", "!">>) THEN "XmlDecl"
  ELSE C16_TagKind(SubSeq(buf, s + 1, C15_End(buf, s, Str(<<">">>))))

\* The chunk at offset s of buf is markup of a form that has a kind: `<!`,
\* `<?`, or a tag (`<` or `</` and a name-start character) with its `>`.
C16_HasKind(buf, s) ==
  /\ s + 4 <= Len(buf)
  /\ buf[s + 1] = 60
  /\ \/ buf[s + 2] \in {33, 63}
     \/ /\ C14_Terminated(buf, s, Str(<<">">>))
        /\ \/ IsAsciiNameStartChar(buf[s + 2])
           \/ buf[s + 2] = 47 /\ IsAsciiNameStartChar(buf[s + 3])

\* C16: the kind AsciiExtractMarkupOrText reports for a markup chunk follows
\* from the chunk's leading and trailing bytes: Comment for `<!--`,
\* ProcessingInstruction for `<?`, Declaration for any other `<!`, and for a
\* tag CloseTag when it begins `</`, else EmptyTag when it ends `/>`, else
\* Tag; every successful extraction reports exactly that kind.
C16_KindFollowsFromBytes ==
  (last.op = "AsciiExtractMarkupOrText" /\ pc = "extract"
     /\ last.Status = "EFI_SUCCESS"
     /\ C16_HasKind(XmlText, C14_Start(XmlText, last.from))) =>
    last.ExtractedType = C16_Kind(XmlText, C14_Start(XmlText, last.from))

\* The offset of the first `<` of buf after offset from; Len(buf) when there
\* is none.
C17_TextEnd(buf, from) ==
  SetMin({p \in from..(Len(buf) - 1) : buf[p + 1] = 60} \cup {Len(buf)})

\* Heap h2 is heap h with one CharacterData node more, which holds data and
\* is the last child of Parent.
C17_Added(h, h2, Parent, data) ==
  /\ Len(h2) = Len(h) + 1
  /\ h2[Len(h2)].XmlDataType = "XmlChar"
  /\ h2[Len(h2)].Data = data
  /\ h2[Len(h2)].DataSize = Len(data)
  /\ h2[Parent].TagChildren.ListStart = Append(h[Parent].TagChildren.ListStart, Len(h2))

\* A pass of ParseBranch with the cursor at offset from of buf, s being the
\* offset of the first byte that is no whitespace.
C17_Pass(buf, from, s) ==
  /\ (s < Len(buf) /\ buf[s + 1] # 60) =>
       /\ OperationPtr' = C17_TextEnd(buf, from)
       /\ C17_Added(heap, heap', stack[Len(stack)],
                    SubSeq(buf, from + 1, C17_TextEnd(buf, from)))
  /\ (s < Len(buf) /\ buf[s + 1] = 60) =>
       \A n \in (Len(heap) + 1)..Len(heap') : heap'[n].XmlDataType # "XmlChar"

\* C17: when the first byte at the cursor that is no whitespace is not `<`,
\* the pass appends to the parent a CharacterData node that holds exactly the
\* bytes from the cursor (leading whitespace included) up to the next `<` or
\* the end of the buffer, DataSize being the number of bytes the cursor
\* advanced; whitespace directly followed by `<` produces no such node.
C17_CharDataIsTheSpanConsumed ==
  [][(pc = "branch" /\ pc' # "fault" /\ OperationPtr < Len(XmlText)) =>
       C17_Pass(XmlText, OperationPtr, C14_Start(XmlText, OperationPtr))]_vars

\* The text ` hi` in front of a tag has become a CharacterData node of three
\* bytes, and the cursor is on the tag's `<`.
C17_Witness ==
  /\ doc = <<7, 6, 5>>
  /\ OperationPtr = 3
  /\ Len(heap) = 2
  /\ heap[2].XmlDataType = "XmlChar"
  /\ heap[2].Data = Str(<<" ", "h", "i">>)
  /\ heap[2].DataSize = 3
  /\ heap[1].TagChildren.ListStart = <<2>>

\* The offset of the first quote character of buf at or after offset from;
\* Len(buf) when there is none.
C18_Open(buf, from) ==
  SetMin({p \in from..(Len(buf) - 1) : buf[p + 1] \in {34, 39}} \cup {Len(buf)})

\* The offset of the next byte of buf after offset o that equals the byte at
\* o; Len(buf) when there is none.
C18_Close(buf, o) ==
  SetMin({p \in (o + 1)..(Len(buf) - 1) : buf[p + 1] = buf[o + 1]} \cup {Len(buf)})

\* The call returned the bytes of buf between offsets o and e, NULL when
\* there are none, and left *InOutStr after offset e.
C18_Between(buf, o, e) ==
  /\ e < Len(buf)
  /\ last.AttribData = IF e = o + 1 THEN NULL ELSE SubSeq(buf, o + 2, e)
  /\ last.InOutStr = e + 1

\* C18: a successful AsciiExtractAttribute returns as value exactly the bytes
\* between the opening quote and the next occurrence of the same quote
\* character (the other quote character is data), NULL when there are none,
\* and leaves *InOutStr at the byte after the closing quote.
C18_ValueIsBetweenTheQuotes ==
  (last.op = "AsciiExtractAttribute" /\ last.Status = "EFI_SUCCESS") =>
    /\ C18_Open(XmlText, last.from) < Len(XmlText)
    /\ C18_Between(XmlText, C18_Open(XmlText, last.from),
                   C18_Close(XmlText, C18_Open(XmlText, last.from)))

\* The value `'` between double quotes has been returned as data.
C18_Witness ==
  /\ last.op = "AsciiExtractAttribute"
  /\ last.Status = "EFI_SUCCESS"
  /\ doc.open = <<34>>
  /\ doc.value = <<39>>
  /\ doc.close = <<34>>
  /\ last.from = 3
  /\ last.AttribData = <<39>>
  /\ last.InOutStr = 3 + Len(doc.name \o doc.ws1 \o doc.eq \o doc.ws2) + 3

\* Pieces p are a name, `=` and a value between two quotes of one kind, with
\* any whitespace around the `=`.
C19_ProperlyQuoted(p) ==
  /\ p.name # <<>>
  /\ p.eq = <<61>>
  /\ p.open # <<>>
  /\ p.close = p.open
  /\ \A n \in 1..Len(p.value) : p.value[n] # p.open[1]

\* What AsciiExtractAttribute gives for the attribute of pieces p written
\* without the whitespace around its `=`.
C19_Plain(p) ==
  AsciiExtractAttribute(CFrom(TagText([p EXCEPT !.ws1 = <<>>, !.ws2 = <<>>]), 3))

\* The last call gave the name and the value of r, successfully.
C19_Same(r) ==
  /\ last.Status = "EFI_SUCCESS"
  /\ r.Status = "EFI_SUCCESS"
  /\ last.Attribute = r.Attribute
  /\ last.AttribData = r.AttribData

\* C19: whatever run of whitespace stands between the attribute name and `=`
\* and between `=` and the opening quote, AsciiExtractAttribute succeeds on a
\* properly quoted attribute with the name and the value it gives for the
\* attribute written without that whitespace.
C19_WhitespaceAroundEquals ==
  (last.op = "AsciiExtractAttribute" /\ last.from = 3 /\ C19_ProperlyQuoted(doc))
    => C19_Same(C19_Plain(doc))

\* The tag terminator `>` or `/>` stands at offset s of buf.
C20_TagEnd(buf, s) ==
  \/ CAt(buf, s) = 62
  \/ CAt(buf, s) = 47 /\ CAt(buf, s + 1) = 62

\* The offset at which the name that starts at offset s of buf ends.
C20_NameEnd(buf, s) ==
  SetMin({p \in s..Len(buf) :
            p = Len(buf) \/ CAt(buf, p) = 61 \/ IsAsciiWhitespace(CAt(buf, p))})

\* o is the offset of the first byte after the `=` and the whitespace that
\* follows it: it is no quote, or the quote has no partner in the chunk.
C20_BadQuote(buf, o) ==
  \/ CAt(buf, o) \notin {34, 39}
  \/ C18_Close(buf, o) = Len(buf)

\* q is the offset of the first byte after the name and the whitespace that
\* follows it: it is no `=`, or what follows the `=` is badly quoted.
C20_BadEquals(buf, q) ==
  \/ CAt(buf, q) # 61
  \/ C20_BadQuote(buf, ScanWs(buf, q + 1, FALSE))

\* The text at offset s of buf, s being the offset of the first byte that is
\* no whitespace, is an attribute with a structural violation.
C20_Violation(buf, s) ==
  /\ ~C20_TagEnd(buf, s)
  /\ C20_BadEquals(buf, ScanWs(buf, C20_NameEnd(buf, s), FALSE))

\* What the claim says of the last call, s being the offset of the first
\* byte at *InOutStr that is no whitespace.
C20_Holds(buf, s) ==
  /\ C20_Violation(buf, s) => last.Status = "EFI_INVALID_PARAMETER"
  /\ last.Status = "EFI_INVALID_PARAMETER" =>
       /\ last.Attribute = NULL
       /\ last.AttribData = NULL
       /\ last.InOutStr = last.from
  /\ last.Status = "EFI_NOT_FOUND" <=> C20_TagEnd(buf, s)
  /\ last.Status = "EFI_NOT_FOUND" =>
       /\ pc \in {"parsed", "added"}
       /\ Status = "EFI_NOT_FOUND"
       /\ heap[stack[1]].TagChildren.ListStart = <<stack[2]>>
       /\ ~heap[stack[2]].freed

\* C20: AsciiExtractAttribute returns EFI_INVALID_PARAMETER for every
\* structural violation (no `=` after the name, no opening quote after `=`, no
\* matching closing quote in the chunk), and then *Attribute and *AttribData
\* are NULL and *InOutStr is unchanged; it returns EFI_NOT_FOUND exactly when
\* only whitespace precedes `>` or `/>`, and then ParseAttributes' loop ends
\* and the element stays in its parent's list.
C20_ViolationIsInvalidParameter ==
  last.op = "AsciiExtractAttribute" =>
    C20_Holds(XmlText, ScanWs(XmlText, last.from, FALSE))

\* The value of attribute x has no closing quote: the call has failed.
C20_Witness ==
  /\ last.op = "AsciiExtractAttribute"
  /\ XmlText = Str(<<"<", "a", " ", "x", "=", "\"", "1", ">">>)
  /\ last.from = 3
  /\ last.Status = "EFI_INVALID_PARAMETER"
  /\ last.InOutStr = 3
  /\ pc = "parsed"

\* C21: the element DriverXmlAddTag deleted because its attributes could not
\* be extracted is left alone: it is the Parent of no ParseBranch frame, it
\* is given no child and no attribute, it is in no list, and the nodes that
\* follow it go to the parent it was deleted from.
C21_DeletedElementIsLeftAlone ==
  pc \in {"top", "branch", "done"} =>
    /\ \A i \in 1..Len(stack) : ~heap[stack[i]].freed
    /\ \A n \in 1..Len(heap) :
         heap[n].freed =>
           /\ heap[n].TagChildren.ListStart = <<>>
           /\ \A o \in 1..Len(heap) : IndexOf(heap[o].TagChildren.ListStart, n) = 0

\* List l counts the nodes linked in it and holds them in the order they were
\* inserted in, which is the order of their addresses.
C22_Counted(l) ==
  /\ l.ItemCount = Len(l.ListStart)
  /\ \A i \in 1..Len(l.ListStart), j \in 1..Len(l.ListStart) :
       i < j => l.ListStart[i] < l.ListStart[j]

C23_EmptyTagHasNoChildren ==
  \A n \in 1..Len(heap) :
    heap[n].XmlDataType = "XmlEmptyTag" =>
      heap[n].TagChildren.ListStart = <<>> /\ heap[n].TagChildren.ItemCount = 0

\* x is what AsciiExtractMarkupOrText gave in the pass just taken: when it
\* succeeded the cursor is further on.
C24_Advanced(x) ==
  ~EFI_ERROR(x.Status) => OperationPtr' > OperationPtr

\* C24: throughout a parse the cursor never decreases and, once the extractor
\* has returned, is not beyond the end of the buffer; every successful
\* extraction advances it by at least one byte.
C24_CursorOnlyAdvances ==
  [][(pc = "branch" /\ pc' # "fault") =>
       /\ OperationPtr' >= OperationPtr
       /\ OperationPtr' <= Len(XmlText)
       /\ OperationPtr < Len(XmlText) =>
            C24_Advanced(AsciiExtractMarkupOrText(XmlText, oob', OperationPtr))]_vars

\* The buffer of document d has grown by grown bytes in the call that was
\* given n bytes to write with free bytes left.
C25_Grown(n, free, grown) ==
  IF n > free
  THEN grown = IF n < OUTPUT_DOCUMENT_ALLOCATE_STEP THEN OUTPUT_DOCUMENT_ALLOCATE_STEP
               ELSE n + 1
  ELSE grown = 0

\* C25: StringToDocument and PrintCharData grow the output buffer only when
\* the bytes to write are more than the buffer has left, and then by exactly
\* 512 bytes when they are fewer than 512 and by their number plus one when
\* they are 512 or more.
C25_GrowsByStepOrSize ==
  (last.op \in {"StringToDocument", "PrintCharData"} /\ ~hist.failed) =>
    C25_Grown(last.n, last.before.DocumentSize - last.before.OperationPtr,
              OutputDocument.DocumentSize - last.before.DocumentSize)

\* The n bytes of the last write stand in the document from the offset the
\* cursor had before the call.
C26_Landed ==
  /\ last.before.OperationPtr + last.n <= OutputDocument.DocumentSize
  /\ SubSeq(OutputDocument.XmlDocument, last.before.OperationPtr + 1,
            last.before.OperationPtr + last.n) = SubSeq(last.String, 1, last.n)

\* The bytes the document held before the last call are where they were.
C26_Kept ==
  /\ Len(last.before.XmlDocument) <= Len(OutputDocument.XmlDocument)
  /\ SubSeq(OutputDocument.XmlDocument, 1, Len(last.before.XmlDocument))
       = last.before.XmlDocument

\* C26: as long as every allocation has succeeded, the offset of the write
\* cursor in a document that started empty is the number of bytes written and
\* is at most DocumentSize, the bytes of each write lie inside the buffer, and
\* the bytes written earlier are unchanged at their offsets after a call that
\* reallocated the buffer.
C26_CursorCountsTheBytesWritten ==
  ~hist.failed =>
    /\ OutputDocument.OperationPtr = hist.bytes
    /\ OutputDocument.OperationPtr <= OutputDocument.DocumentSize
    /\ Len(OutputDocument.XmlDocument) = OutputDocument.OperationPtr
    /\ last.op \in {"StringToDocument", "PrintCharData"} => C26_Landed
    /\ last.op # "none" => C26_Kept

\* A write that had to reallocate a buffer already holding bytes.
C26_Witness ==
  /\ ~hist.failed
  /\ last.op \in {"StringToDocument", "PrintCharData"}
  /\ last.before.OperationPtr > 0
  /\ OutputDocument.DocumentSize > last.before.DocumentSize
  /\ C26_Landed
  /\ C26_Kept

\* C27: when the reallocation in StringToDocument or PrintCharData fails, the
\* bytes are not written, the document and its cursor are as before the call,
\* and the call returns an error status.
C27_FailedGrowthWritesNothing ==
  (last.op \in {"StringToDocument", "PrintCharData"} /\ ~last.ok /\ pc # "fault") =>
    /\ OutputDocument = last.before
    /\ EFI_ERROR(Status)

\* The closing tag of the element PrintTag was last called on.
C30_Close == Str(<<"<", "/">>) \o last.String \o Str(<<">">>)

\* C30: for a Tag of any name length whose opening text fits the temporary
\* buffer, the document ends, after PrintTag, with the closing tag that holds
\* the whole name of the opening tag.
C30_CloseTagHoldsTheWholeName ==
  (last.op = "PrintTag" /\ Len(OutputDocument.XmlDocument) >= Len(C30_Close)) =>
    SubSeq(OutputDocument.XmlDocument,
           Len(OutputDocument.XmlDocument) - Len(C30_Close) + 1,
           Len(OutputDocument.XmlDocument)) = C30_Close

\* The innermost open frame.
C29_Parent == stack[Len(stack)]

\* What AsciiExtractMarkupOrText gives in the pass that is being taken.
C29_Chunk == AsciiExtractMarkupOrText(XmlText, oob', OperationPtr)

\* C29: the synthetic Root is told from document elements by identity: a pass
\* that finds the buffer at its end while a document element is open, whatever
\* its name, returns EFI_END_OF_FILE, and a pass that finds a close tag while
\* only the synthetic Root is open returns EFI_DEVICE_ERROR.
C29_RootIsToldByIdentity ==
  [][(pc = "branch" /\ pc' # "fault" /\ OperationPtr < Len(XmlText)) =>
       /\ (Len(stack) > 1 /\ C29_Chunk.Status = "EFI_END_OF_FILE")
            => (Len(stack') = Len(stack) - 1 /\ hist'.failed)
       /\ (Len(stack) = 1 /\ ~EFI_ERROR(C29_Chunk.Status)
             /\ C29_Chunk.ExtractedType = "XmlCloseTag")
            => Status' = "EFI_DEVICE_ERROR"]_vars

\* DriverXmlParse run from m to its end on the bytes buf, in memory where the
\* byte after them is a zero.
RECURSIVE C28_Run(_, _)
C28_Run(m, buf) ==
  IF m.pc = "top" THEN C28_Run(ParseTop(m, Len(buf)), buf)
  ELSE IF m.pc = "branch" THEN C28_Run(ParseBranch(m, buf, 0), buf)
  ELSE m

\* Parses m and n have the same outcome: the same status and no tree, or
\* trees of the same structure.
C28_Same(m, n) ==
  /\ m.Ret = n.Ret
  /\ (m.XmlTree = Unassigned) <=> (n.XmlTree = Unassigned)
  /\ m.XmlTree # Unassigned => TreeOf(m.heap, m.XmlTree) = TreeOf(n.heap, n.XmlTree)

\* C28: the status and the tree of DriverXmlParse are a function of the bytes
\* of the buffer: whatever lies in memory after them, a parse that returns
\* has the outcome of the parse of the same bytes followed by a zero.
C28_OutcomeFollowsFromTheBuffer ==
  (pc = "done" /\ phase = 1 /\ C28_Run(ParseEntry(Idle), XmlText).pc = "done") =>
    C28_Same(Machine, C28_Run(ParseEntry(Idle), XmlText))

====
